---- MODULE Spec2Model ----
(***************************************************************************)
(* typed-validation: the assertion-combinator engine (validate,            *)
(* conformsTo, eachItem, eachValue, either, the modifiers and the          *)
(* primitive assertions) and its result model (ValidationError,            *)
(* ErrorResult, success).                                                  *)
(*                                                                         *)
(* A JavaScript value is a record tagged by `t`; objects and arrays also   *)
(* carry `origin`, "caller" for a value the caller passed in and "engine"  *)
(* for one the engine allocated, which stands for reference identity.      *)
(* An assertion (a closure in the source) is a record tagged by `op` that  *)
(* holds the closure's captured arguments; Apply runs the closure's body.  *)
(* Every operator that runs code returns an outcome: a success, an error   *)
(* result, or a thrown value, together with `calls`, the assertions it     *)
(* invoked, in order, each with the argument it was given.                 *)
(***************************************************************************)
EXTENDS Integers, Sequences, FiniteSets, TLC

\* pc: "idle" before a call, "done" after it; entry: the operation called;
\* assertion, arg: what it was called with; outcome: what assertion(arg) did;
\* result: what validate(arg, assertion) did; rendering: the errors and root
\* of a call of ErrorResult.toString and the text it returned ("rendered")
VARIABLES pc, entry, assertion, arg, outcome, result, rendering

\* The same engine run step by step over a heap, where objects, arrays and
\* ValidationErrors have an identity and are written in place.
\* heap: the cells allocated so far, a reference being an index into it;
\* stack: the activations of the assertions being run, innermost last;
\* reg: what the activation that just ended returned or threw;
\* log: the assertions invoked by the running call, in order;
\* history: the validate calls that have returned, in order
VARIABLES heap, stack, reg, log, history

machine == <<heap, stack, reg, log, history>>

vars == <<pc, entry, assertion, arg, outcome, result, rendering,
          heap, stack, reg, log, history>>

(* ------------------------------ bounds --------------------------------- *)

\* numbers of the inputs range over -MaxInt .. MaxInt
MaxInt == 1
\* arrays of the inputs have up to MaxItems elements
MaxItems == 2
\* objects of the inputs have up to MaxExtra keys beside the declared ones,
\* and maps have up to MaxExtra keys
MaxExtra == 2
\* either is given up to MaxAlts assertions
MaxAlts == 2
\* the longest list of errors rendered on its own
MaxErrors == 2

(* --------------------------- JavaScript values ------------------------- *)

Undefined == [t |-> "undefined"]
Null == [t |-> "null"]
Bool(b) == [t |-> "boolean", b |-> b]
Num(n) == [t |-> "number", n |-> n]
Str(s) == [t |-> "string", s |-> s]
\* items: the elements by ascending index
Arr(origin, items) == [t |-> "array", origin |-> origin, items |-> items]
\* props: the own enumerable properties [k, v] in iteration order
Obj(origin, props) == [t |-> "object", origin |-> origin, props |-> props]
\* an Error instance (new Error(message), or a TypeError the runtime raises)
Err(name, message) == [t |-> "error", name |-> name, message |-> message]

\* typeof
TypeOf(v) ==
  CASE v.t = "undefined" -> "undefined"
    [] v.t \in {"null", "array", "object", "error"} -> "object"
    [] OTHER -> v.t

\* arg instanceof Array
InstanceOfArray(v) == v.t = "array"

RECURSIVE JoinStrings(_, _)
\* Array.prototype.join on strings
JoinStrings(strs, sep) ==
  IF strs = <<>> THEN ""
  ELSE IF Len(strs) = 1 THEN strs[1]
  ELSE strs[1] \o sep \o JoinStrings(Tail(strs), sep)

RECURSIVE JsString(_)
\* String(v), as a template literal `${v}` renders it
JsString(v) ==
  CASE v.t = "undefined" -> "undefined"
    [] v.t = "null" -> "null"
    [] v.t = "boolean" -> (IF v.b THEN "true" ELSE "false")
    [] v.t = "number" -> ToString(v.n)
    [] v.t = "string" -> v.s
    [] v.t = "array" ->
         JoinStrings([i \in 1..Len(v.items) |->
                        IF v.items[i].t \in {"undefined", "null"} THEN ""
                        ELSE JsString(v.items[i])], ",")
    [] v.t = "object" -> "[object Object]"
    [] OTHER -> v.name \o ": " \o v.message

\* the own enumerable keys of an object, in iteration order
OwnKeys(v) == IF v.t = "object" THEN [i \in 1..Len(v.props) |-> v.props[i].k] ELSE <<>>

HasOwnProperty(v, key) == \E i \in 1..Len(OwnKeys(v)) : OwnKeys(v)[i] = key

\* obj[key] for an own property, else undefined
OwnValue(v, key) ==
  IF HasOwnProperty(v, key)
  THEN v.props[CHOOSE i \in 1..Len(v.props) : v.props[i].k = key].v
  ELSE Undefined

\* obj[key] = value on an object the engine builds: "__proto__" is the accessor
\* Object.prototype.__proto__, so assigning it adds no own property
SetProperty(obj, key, value) ==
  IF key = "__proto__" THEN obj
  ELSE IF HasOwnProperty(obj, key)
  THEN [obj EXCEPT !.props = [i \in 1..Len(obj.props) |->
          IF obj.props[i].k = key THEN [k |-> key, v |-> value] ELSE obj.props[i]]]
  ELSE [obj EXCEPT !.props = Append(obj.props, [k |-> key, v |-> value])]

(* ------------------------------ results -------------------------------- *)

KeyPathNode(key) == [key |-> key]
ArrayIndexPathNode(index) == [index |-> index]

ValidationError(errorCode, message) ==
  [errorCode |-> errorCode, message |-> message, path |-> <<>>]

\* an outcome that is a SuccessResult
Success(value, calls) == [tag |-> "success", value |-> value, calls |-> calls]
\* an outcome that is an ErrorResult
Failure(errors, calls) == [tag |-> "error", errors |-> errors, calls |-> calls]
\* an outcome that is a thrown value
Throw(err, calls) == [tag |-> "throw", err |-> err, calls |-> calls]

success(value) == Success(value, <<>>)

error(errorCode, message) == Failure(<<ValidationError(errorCode, message)>>, <<>>)

\* addPathNode that pushes the node onto the end of every error's path
addPathNodePushed(errors, node) ==
  [i \in 1..Len(errors) |-> [errors[i] EXCEPT !.path = Append(@, node)]]

\* addPathNode that forgets the node
addPathNodeForgotten(errors, node) == errors

\* ErrorResult.addPathNode: unshift the node onto every error's path
addPathNode(errors, node) ==
  [i \in 1..Len(errors) |-> [errors[i] EXCEPT !.path = <<node>> \o @]]

\* reading err.message: a TypeError for null, the property for an Error
\* instance, undefined for any other object
errorFromException(err) ==
  IF TypeOf(err) = "object"
  THEN IF err.t = "null"
       THEN Throw(Err("TypeError", "Cannot read property 'message' of null"), <<>>)
       ELSE IF err.t = "error" /\ err.message # ""
       THEN error("UNHANDLED_ERROR", "Unhandled error: " \o err.message)
       ELSE error("UNHANDLED_ERROR", "Unhandled error: Unknown error")
  ELSE error("UNHANDLED_ERROR", "Unhandled error: Unknown error")

\* tryCatch(func, (err) => errorFromException(err)), o the outcome of func()
tryCatch(o) ==
  IF o.tag = "throw"
  THEN LET c == errorFromException(o.err) IN [c EXCEPT !.calls = o.calls]
  ELSE o

(* ----------------------- more JavaScript semantics --------------------- *)

\* an assertion is a function value; everything else is a JavaScript value
IsFunction(x) == "op" \in DOMAIN x

\* typeof of a parameter that may hold a function (optionsOrNext)
TypeOfParam(x) == IF IsFunction(x) THEN "function" ELSE TypeOf(x)

\* ToBoolean
Truthy(v) ==
  CASE v.t \in {"undefined", "null"} -> FALSE
    [] v.t = "boolean" -> v.b
    [] v.t = "number" -> v.n # 0
    [] v.t = "string" -> v.s # ""
    [] OTHER -> TRUE

NaN == [nan |-> TRUE]
Number(n) == [nan |-> FALSE, n |-> n]

\* ToNumber of a string of the model: "" is 0, the decimal numerals of
\* -MaxInt-1 .. MaxInt+1 are their numbers, and any other string is NaN
StringToNumber(s) ==
  IF s = "" THEN Number(0)
  ELSE IF \E n \in (0 - MaxInt - 1)..(MaxInt + 1) : ToString(n) = s
       THEN Number(CHOOSE n \in (0 - MaxInt - 1)..(MaxInt + 1) : ToString(n) = s)
       ELSE NaN

\* ToNumber, which the relational operators apply to a non-number operand
ToNumber(v) ==
  CASE v.t = "undefined" -> NaN
    [] v.t = "null" -> Number(0)
    [] v.t = "boolean" -> Number(IF v.b THEN 1 ELSE 0)
    [] v.t = "number" -> Number(v.n)
    [] v.t = "string" -> StringToNumber(v.s)
    [] v.t = "array" -> StringToNumber(JsString(v))
    [] OTHER -> NaN

\* arg < bound and arg > bound, false when arg converts to NaN
LessThan(v, bound) == ~ToNumber(v).nan /\ ToNumber(v).n < bound
GreaterThan(v, bound) == ~ToNumber(v).nan /\ ToNumber(v).n > bound

\* whether arg.length is a number: strings, arrays, and objects that own a
\* numeric length property
HasLength(v) ==
  \/ v.t \in {"string", "array"}
  \/ v.t = "object" /\ OwnValue(v, "length").t = "number"
Length(v) ==
  CASE v.t = "string" -> Len(v.s)
    [] v.t = "array" -> Len(v.items)
    [] OTHER -> OwnValue(v, "length").n
\* `${arg.length}`
LengthString(v) == IF HasLength(v) THEN ToString(Length(v)) ELSE "undefined"

\* reading a property of undefined or null raises a TypeError
PropertyReadThrows(v) == v.t \in {"undefined", "null"}
PropertyTypeError(v, key) ==
  Err("TypeError", "Cannot read property '" \o key \o "' of " \o JsString(v))

\* val === arg: primitives by type and value; an object or array only equals
\* itself, and the values captured by equals are never the caller's input
StrictEquals(a, b) ==
  /\ a.t = b.t
  /\ a.t \in {"undefined", "null", "boolean", "number", "string"}
  /\ a = b

\* the indices of an array as for-in and Object.keys give them
IndexKeys(v) == [i \in 1..Len(v.items) |-> ToString(i - 1)]

\* Object.keys(arg) for a value that is neither undefined nor null
ObjectKeys(v) ==
  CASE v.t = "object" -> OwnKeys(v)
    [] v.t = "array" -> IndexKeys(v)
    [] v.t = "string" -> [i \in 1..Len(v.s) |-> ToString(i - 1)]
    [] OTHER -> <<>>

\* keysOf: for-in over an object, nothing for a non-object (and for null)
keysOf(v) ==
  IF TypeOf(v) # "object" THEN <<>>
  ELSE CASE v.t = "object" -> OwnKeys(v)
         [] v.t = "array" -> IndexKeys(v)
         [] OTHER -> <<>>

(* --------------------------- rendering errors -------------------------- *)

Letters == {"a", "b", "c", "d", "e", "f", "g", "h", "i", "j", "k", "l", "m",
            "n", "o", "p", "q", "r", "s", "t", "u", "v", "w", "x", "y", "z",
            "A", "B", "C", "D", "E", "F", "G", "H", "I", "J", "K", "L", "M",
            "N", "O", "P", "Q", "R", "S", "T", "U", "V", "W", "X", "Y", "Z"}
Digits == {"0", "1", "2", "3", "4", "5", "6", "7", "8", "9"}

CharAt(s, i) == SubSeq(s, i, i)

\* /^[$a-z_][$a-z0-9_]*$/i.test(key)
IsBareword(key) ==
  /\ Len(key) > 0
  /\ CharAt(key, 1) \in Letters \cup {"$", "_"}
  /\ \A i \in 2..Len(key) : CharAt(key, i) \in Letters \cup Digits \cup {"$", "_"}

\* String.prototype.replace(pattern, replacement) with a one-character string
\* pattern: the first occurrence only
ReplaceFirst(s, ch, replacement) ==
  IF \E i \in 1..Len(s) : CharAt(s, i) = ch
  THEN LET i == CHOOSE j \in 1..Len(s) :
                  CharAt(s, j) = ch /\ \A k \in 1..(j - 1) : CharAt(s, k) # ch
       IN SubSeq(s, 1, i - 1) \o replacement \o SubSeq(s, i + 1, Len(s))
  ELSE s

\* KeyPathNode.toString and ArrayIndexPathNode.toString
PathNodeToString(node) ==
  IF "index" \in DOMAIN node
  THEN "[" \o ToString(node.index) \o "]"
  ELSE IF IsBareword(node.key)
       THEN "." \o node.key
       ELSE "['" \o ReplaceFirst(ReplaceFirst(node.key, "\\", "\\\\"), "'", "\\'") \o "']"

\* ValidationError.pathString
pathString(err, root) ==
  root \o JoinStrings([i \in 1..Len(err.path) |-> PathNodeToString(err.path[i])], "")

\* ValidationError.toString
ErrorToString(err, root) == pathString(err, root) \o ": " \o err.message

\* the default of the root parameter of toString and pathString
DefaultRoot == "$"

\* an ErrorResult.toString that always writes the plural
ErrorResultToStringPlural(errors, root) ==
  ToString(Len(errors)) \o " validation errors:\n  "
  \o JoinStrings([i \in 1..Len(errors) |-> ErrorToString(errors[i], root)], "\n  ")

\* ErrorResult.toString
ErrorResultToString(errors, root) ==
  ToString(Len(errors)) \o " validation error"
  \o (IF Len(errors) = 1 THEN "" ELSE "s") \o ":\n  "
  \o JoinStrings([i \in 1..Len(errors) |-> ErrorToString(errors[i], root)], "\n  ")

RECURSIVE repeat(_, _)
\* repeat(text, count): text, count times over
repeat(text, count) == IF count <= 0 THEN "" ELSE text \o repeat(text, count - 1)

RECURSIVE ReplaceAll(_, _, _)
\* text.split(ch).join(replacement) for a one-character ch
ReplaceAll(text, ch, replacement) ==
  IF text = "" THEN ""
  ELSE (IF CharAt(text, 1) = ch THEN replacement ELSE CharAt(text, 1))
       \o ReplaceAll(SubSeq(text, 2, Len(text)), ch, replacement)

\* increaseIndent(text, indent): every line of text moved right by indent
increaseIndent(text, indent) ==
  repeat(" ", indent) \o ReplaceAll(text, "\n", "\n" \o repeat(" ", indent))

pluralise(count, singular, plural) ==
  ToString(count) \o " " \o (IF count = 1 THEN singular ELSE plural)

\* formatEitherValidationErrorMessages(errorsPerType), colours off as
\* setColours(false) leaves them: one block per description, its errors below
formatEitherValidationErrorMessages(errorsPerType) ==
  JoinStrings(
    [i \in 1..Len(keysOf(errorsPerType)) |->
       LET desc == keysOf(errorsPerType)[i]
           errors == OwnValue(errorsPerType, desc)
       IN increaseIndent(
            "Not " \o desc \o ", due to "
            \o pluralise(Len(errors), "validation error", "validation errors") \o ":"
            \o "\n"
            \o JoinStrings([j \in 1..Len(errors) |->
                              increaseIndent(ErrorToString(errors[j], DefaultRoot), 4)],
                           "\n"),
            4)],
    "\n")

(* ----------------------------- assertions ------------------------------ *)

RECURSIVE Apply(_, _)

\* a call assertion(value): the call is recorded, then the closure body runs
Invoke(a, value) ==
  LET o == Apply(a, value) IN [o EXCEPT !.calls = <<[a |-> a, arg |-> value]>> \o @]

\* next ? next(arg) : success(arg)
Chain(next, value) == IF next = Undefined THEN success(value) ELSE Invoke(next, value)

\* an assertion the caller wrote: it throws a value, returns an ErrorResult of
\* its own, returns its argument, or returns a value of its own
callerAssertion(a, value) ==
  CASE a.does = "throw" -> Throw(a.err, <<>>)
    [] a.does = "fail" -> Failure(a.errors, <<>>)
    [] a.does = "replace" -> success(a.value)
    [] OTHER -> success(value)

\* an optional that takes null for missing as well (arg == undefined)
optionalLoose(next, value) ==
  IF value \in {Undefined, Null} THEN success(Undefined) ELSE Chain(next, value)

optional(next, value) ==
  IF value = Undefined THEN success(Undefined) ELSE Chain(next, value)

nullable(next, value) ==
  IF value = Null THEN success(Null) ELSE Chain(next, value)

\* a defaultsTo that takes null for missing as well (arg == undefined)
defaultsToLoose(def, next, value) ==
  Chain(next, IF value \in {Undefined, Null} THEN def ELSE value)

\* a defaultsTo that substitutes the default after next instead of before it
defaultsToAfter(def, next, value) ==
  IF value = Undefined THEN success(def) ELSE Chain(next, value)

defaultsTo(def, next, value) ==
  Chain(next, IF value = Undefined THEN def ELSE value)

onErrorDefaultsTo(def, next, value) ==
  LET res == tryCatch(Invoke(next, value))
  IN IF res.tag = "error" THEN Success(def, res.calls) ELSE res

isBoolean(next, value) ==
  IF TypeOf(value) # "boolean"
  THEN error("NOT_BOOLEAN", "Expected boolean, got " \o TypeOf(value))
  ELSE Chain(next, value)

isNumber(next, value) ==
  IF TypeOf(value) # "number"
  THEN error("NOT_NUMBER", "Expected number, got " \o TypeOf(value))
  ELSE Chain(next, value)

\* a min that rejects the bound itself (arg <= min)
minExclusive(bound, next, value) ==
  IF LessThan(value, bound + 1)
  THEN error("LESS_THAN_MIN", JsString(value) \o " is less than " \o ToString(bound))
  ELSE Chain(next, value)

min(bound, next, value) ==
  IF LessThan(value, bound)
  THEN error("LESS_THAN_MIN", JsString(value) \o " is less than " \o ToString(bound))
  ELSE Chain(next, value)

max(bound, next, value) ==
  IF GreaterThan(value, bound)
  THEN error("GREATER_THAN_MAX", JsString(value) \o " is greater than " \o ToString(bound))
  ELSE Chain(next, value)

isString(next, value) ==
  IF TypeOf(value) # "string"
  THEN error("NOT_STRING", "Expected string, got " \o TypeOf(value))
  ELSE Chain(next, value)

\* regex: its source text and the strings of the model it accepts
matches(regex, next, value) ==
  IF JsString(value) \notin regex.accepts
  THEN error("FAILED_REGEXP", "Failed regular expression " \o regex.source)
  ELSE Chain(next, value)

minLength(bound, next, value) ==
  IF PropertyReadThrows(value) THEN Throw(PropertyTypeError(value, "length"), <<>>)
  ELSE IF HasLength(value) /\ Length(value) < bound
  THEN error("LESS_THAN_MIN_LENGTH",
             "Length " \o LengthString(value) \o " is less than " \o ToString(bound))
  ELSE Chain(next, value)

maxLength(bound, next, value) ==
  IF PropertyReadThrows(value) THEN Throw(PropertyTypeError(value, "length"), <<>>)
  ELSE IF HasLength(value) /\ Length(value) > bound
  THEN error("GREATER_THAN_MAX_LENGTH",
             "Length " \o LengthString(value) \o " is greater than " \o ToString(bound))
  ELSE Chain(next, value)

lengthIs(length, next, value) ==
  IF PropertyReadThrows(value) THEN Throw(PropertyTypeError(value, "length"), <<>>)
  ELSE IF ~HasLength(value) \/ Length(value) # length
  THEN error("LENGTH_NOT_EQUAL",
             "Length " \o LengthString(value) \o " is not equal to " \o ToString(length))
  ELSE Chain(next, value)

isArray(next, value) ==
  IF ~InstanceOfArray(value)
  THEN error("NOT_ARRAY", "Expected array, got " \o TypeOf(value))
  ELSE Chain(next, value)

\* the check of isObject, which conformsTo and isMap wrap their bodies in
NotObject(value) == TypeOf(value) # "object" \/ InstanceOfArray(value)

NotObjectError(value) ==
  error("NOT_OBJECT", "Expected object, got " \o
        (IF InstanceOfArray(value) THEN "array" ELSE TypeOf(value)))

isObject(next, value) ==
  IF NotObject(value) THEN NotObjectError(value) ELSE Chain(next, value)

\* val == arg: null and undefined equal each other, and a number, a string
\* and a boolean are compared as numbers
LooseEquals(a, b) ==
  \/ StrictEquals(a, b)
  \/ a.t \in {"undefined", "null"} /\ b.t \in {"undefined", "null"}
  \/ /\ a.t \in {"number", "string", "boolean"}
     /\ b.t \in {"number", "string", "boolean"}
     /\ ~ToNumber(a).nan
     /\ ToNumber(a) = ToNumber(b)

\* an equals that compares with == instead of ===
equalsLoose(vals, value) ==
  IF \E i \in 1..Len(vals) : LooseEquals(vals[i], value)
  THEN success(value)
  ELSE error("NOT_EQUAL",
             IF Len(vals) = 1
             THEN "'" \o JsString(value) \o "' does not equal '" \o JsString(vals[1]) \o "'"
             ELSE "'" \o JsString(value) \o "' not one of: " \o
                  JoinStrings([i \in 1..Len(vals) |-> JsString(vals[i])], ", "))

equals(vals, value) ==
  IF \E i \in 1..Len(vals) : StrictEquals(vals[i], value)
  THEN success(value)
  ELSE error("NOT_EQUAL",
             IF Len(vals) = 1
             THEN "'" \o JsString(value) \o "' does not equal '" \o JsString(vals[1]) \o "'"
             ELSE "'" \o JsString(value) \o "' not one of: " \o
                  JoinStrings([i \in 1..Len(vals) |-> JsString(vals[i])], ", "))

(* ------------------------ structural combinators ----------------------- *)

\* an outcome with the calls made before it put in front of its own
After(calls, o) == [o EXCEPT !.calls = calls \o @]

\* const { allowAdditionalProperties = true } = options
AllowAdditionalProperties(optionsOrNext) ==
  LET options == IF TypeOfParam(optionsOrNext) = "object"
                 THEN optionsOrNext ELSE Obj("engine", <<>>)
      given == OwnValue(options, "allowAdditionalProperties")
  IN IF given = Undefined THEN TRUE ELSE Truthy(given)

RECURSIVE conformsToReduce(_, _, _, _)

RECURSIVE conformsToReduceFailFast(_, _, _, _)
\* a reduce that stops at the first field that fails
conformsToReduceFailFast(validator, value, i, acc) ==
  IF i > Len(keysOf(validator)) THEN acc
  ELSE LET key == keysOf(validator)[i]
           res == tryCatch(IF PropertyReadThrows(value)
                           THEN Throw(PropertyTypeError(value, key), <<>>)
                           ELSE Invoke(OwnValue(validator, key), OwnValue(value, key)))
           calls == acc.calls \o res.calls
       IN CASE res.tag = "throw" ->
                 [acc EXCEPT !.calls = calls, !.threw = TRUE, !.err = res.err]
            [] res.tag = "error" ->
                 [acc EXCEPT !.calls = calls,
                             !.errors = @ \o addPathNode(res.errors, KeyPathNode(key))]
            [] OTHER ->
                 conformsToReduceFailFast(validator, value, i + 1,
                   [acc EXCEPT !.calls = calls,
                               !.validated = SetProperty(@, key, res.value)])

\* keysOf(validator).reduce(...): acc holds the errors so far, the partially
\* validated object, the calls made and, once errorFromException itself has
\* thrown, the value that leaves the reduce
conformsToReduce(validator, value, i, acc) ==
  IF i > Len(keysOf(validator)) THEN acc
  ELSE LET key == keysOf(validator)[i]
           res == tryCatch(IF PropertyReadThrows(value)
                           THEN Throw(PropertyTypeError(value, key), <<>>)
                           ELSE Invoke(OwnValue(validator, key), OwnValue(value, key)))
           calls == acc.calls \o res.calls
       IN CASE res.tag = "throw" ->
                 [acc EXCEPT !.calls = calls, !.threw = TRUE, !.err = res.err]
            [] res.tag = "error" ->
                 conformsToReduce(validator, value, i + 1,
                   [acc EXCEPT !.calls = calls,
                               !.errors = @ \o addPathNode(res.errors, KeyPathNode(key))])
            [] OTHER ->
                 conformsToReduce(validator, value, i + 1,
                   [acc EXCEPT !.calls = calls,
                               !.validated = SetProperty(@, key, res.value)])

\* one error for each key of the input that the validator does not own
AdditionalPropertiesErrorsPerKey(validator, value) ==
  LET additionalProperties ==
        SelectSeq(keysOf(value), LAMBDA key : ~HasOwnProperty(validator, key))
  IN [i \in 1..Len(additionalProperties) |->
        ValidationError("UNEXPECTED_ADDITIONAL_PROPERTIES",
          "Unexpected additional property: " \o additionalProperties[i])]

\* the error pushed for the keys of the input that the validator does not own
AdditionalPropertiesErrors(validator, value) ==
  LET additionalProperties ==
        SelectSeq(keysOf(value), LAMBDA key : ~HasOwnProperty(validator, key))
  IN IF Len(additionalProperties) > 0
     THEN <<ValidationError("UNEXPECTED_ADDITIONAL_PROPERTIES",
              "Unexpected additional propert" \o
              (IF Len(additionalProperties) = 1 THEN "y" ELSE "ies") \o ": " \o
              JoinStrings(additionalProperties, ", "))>>
     ELSE <<>>

\* a conformsTo that returns an ErrorResult of the errors without looking at
\* how many there are
conformsToUnguarded(validator, optionsOrNext, next, value) ==
  IF NotObject(value) THEN NotObjectError(value)
  ELSE LET acc == conformsToReduce(validator, value, 1,
                    [errors |-> <<>>, validated |-> Obj("engine", <<>>),
                     calls |-> <<>>, threw |-> FALSE, err |-> Undefined])
           errors == acc.errors \o
                     (IF ~AllowAdditionalProperties(optionsOrNext)
                      THEN AdditionalPropertiesErrors(validator, value) ELSE <<>>)
       IN IF acc.threw THEN Throw(acc.err, acc.calls)
          ELSE Failure(errors, acc.calls)

\* a conformsTo that hands the input object back once every field has passed
conformsToInPlace(validator, optionsOrNext, next, value) ==
  IF NotObject(value) THEN NotObjectError(value)
  ELSE LET acc == conformsToReduce(validator, value, 1,
                    [errors |-> <<>>, validated |-> Obj("engine", <<>>),
                     calls |-> <<>>, threw |-> FALSE, err |-> Undefined])
           errors == acc.errors \o
                     (IF ~AllowAdditionalProperties(optionsOrNext)
                      THEN AdditionalPropertiesErrors(validator, value) ELSE <<>>)
       IN IF acc.threw THEN Throw(acc.err, acc.calls)
          ELSE IF Len(errors) > 0 THEN Failure(errors, acc.calls)
          ELSE After(acc.calls, Chain(next, value))

\* the closure conformsTo returns; the closing line reads `next`, the third
\* parameter, so a next passed in second place (optionsOrNext) is never run
conformsTo(validator, optionsOrNext, next, value) ==
  IF NotObject(value) THEN NotObjectError(value)
  ELSE LET acc == conformsToReduce(validator, value, 1,
                    [errors |-> <<>>, validated |-> Obj("engine", <<>>),
                     calls |-> <<>>, threw |-> FALSE, err |-> Undefined])
           errors == acc.errors \o
                     (IF ~AllowAdditionalProperties(optionsOrNext)
                      THEN AdditionalPropertiesErrors(validator, value) ELSE <<>>)
       IN IF acc.threw THEN Throw(acc.err, acc.calls)
          ELSE IF Len(errors) > 0 THEN Failure(errors, acc.calls)
          ELSE After(acc.calls, Chain(next, acc.validated))

RECURSIVE eachItemMap(_, _, _, _)
\* arg.map((item, index) => tryCatch(...)): acc holds the results so far
eachItemMap(a, items, i, acc) ==
  IF i > Len(items) THEN acc
  ELSE LET res == tryCatch(Invoke(a, items[i]))
           calls == acc.calls \o res.calls
       IN IF res.tag = "throw"
          THEN [acc EXCEPT !.calls = calls, !.threw = TRUE, !.err = res.err]
          ELSE eachItemMap(a, items, i + 1,
                 [acc EXCEPT !.calls = calls, !.results = Append(@, res)])

RECURSIVE eachItemErrorsFirstOnly(_, _)
\* the errors of the first failed result only
eachItemErrorsFirstOnly(results, i) ==
  IF i > Len(results) THEN <<>>
  ELSE IF results[i].tag = "error"
       THEN addPathNode(results[i].errors, ArrayIndexPathNode(i - 1))
       ELSE eachItemErrorsFirstOnly(results, i + 1)

RECURSIVE eachItemErrors(_, _)
\* the errors of the failed results, each under its index, by ascending index
eachItemErrors(results, i) ==
  IF i > Len(results) THEN <<>>
  ELSE (IF results[i].tag = "error"
        THEN addPathNode(results[i].errors, ArrayIndexPathNode(i - 1))
        ELSE <<>>) \o eachItemErrors(results, i + 1)

eachItem(a, next, value) ==
  IF ~InstanceOfArray(value)
  THEN Throw(IF PropertyReadThrows(value) THEN PropertyTypeError(value, "map")
             ELSE Err("TypeError", "arg.map is not a function"), <<>>)
  ELSE LET acc == eachItemMap(a, value.items, 1,
                    [results |-> <<>>, calls |-> <<>>, threw |-> FALSE, err |-> Undefined])
       IN IF acc.threw THEN Throw(acc.err, acc.calls)
          ELSE IF \E i \in 1..Len(acc.results) : acc.results[i].tag = "error"
          THEN Failure(eachItemErrors(acc.results, 1), acc.calls)
          ELSE After(acc.calls,
                 Chain(next, Arr("engine",
                   [i \in 1..Len(acc.results) |-> acc.results[i].value])))

\* typeof key for a key that for-in gives
TypeOfKey(key) == "string"

isMap(next, value) ==
  IF NotObject(value) THEN NotObjectError(value)
  ELSE LET nonStringKeys ==
             SelectSeq(keysOf(value), LAMBDA key : TypeOfKey(key) # "string")
       IN IF Len(nonStringKeys) > 0
          THEN error("NOT_STRING_KEY", "Expected string keys, got: " \o
                 JoinStrings([i \in 1..Len(nonStringKeys) |->
                   nonStringKeys[i] \o " (" \o TypeOfKey(nonStringKeys[i]) \o ")"], ","))
          ELSE Chain(next, value)

RECURSIVE eachValueValidator(_, _, _, _)
\* Object.keys(arg).reduce((validator, key) => { validator[key] = assertion; ... }, {})
eachValueValidator(a, keys, i, validator) ==
  IF i > Len(keys) THEN validator
  ELSE eachValueValidator(a, keys, i + 1, SetProperty(validator, keys[i], a))

\* eachValue takes next and never reads it
eachValue(a, next, value) ==
  IF PropertyReadThrows(value)
  THEN Throw(Err("TypeError", "Cannot convert undefined or null to object"), <<>>)
  ELSE conformsTo(eachValueValidator(a, ObjectKeys(value), 1, Obj("engine", <<>>)),
                  Undefined, Undefined, value)

RECURSIVE eitherLoopLastOnly(_, _, _, _)
\* a loop that keeps the errors of the last alternative only
eitherLoopLastOnly(assertions, value, i, acc) ==
  IF i > Len(assertions)
  THEN After(acc.calls,
         error("NO_MATCH", "No match found - the following assertions failed:\n    " \o
           JoinStrings([j \in 1..Len(acc.errors) |->
                          ErrorToString(acc.errors[j], DefaultRoot)], "\n    ")))
  ELSE LET res == After(acc.calls, Invoke(assertions[i], value))
       IN IF res.tag = "error"
          THEN eitherLoopLastOnly(assertions, value, i + 1,
                 [errors |-> res.errors, calls |-> res.calls])
          ELSE res

RECURSIVE eitherLoop(_, _, _, _)
\* for (const assertion of assertions): acc holds the errors and calls so far
eitherLoop(assertions, value, i, acc) ==
  IF i > Len(assertions)
  THEN After(acc.calls,
         error("NO_MATCH", "No match found - the following assertions failed:\n    " \o
           JoinStrings([j \in 1..Len(acc.errors) |->
                          ErrorToString(acc.errors[j], DefaultRoot)], "\n    ")))
  ELSE LET res == After(acc.calls, Invoke(assertions[i], value))
       IN IF res.tag = "error"
          THEN eitherLoop(assertions, value, i + 1,
                 [errors |-> acc.errors \o res.errors, calls |-> res.calls])
          ELSE res

either(assertions, value) ==
  eitherLoop(assertions, value, 1, [errors |-> <<>>, calls |-> <<>>])

\* the body of the closure an assertion value stands for
Apply(a, value) ==
  CASE a.op = "caller" -> callerAssertion(a, value)
    [] a.op = "conformsTo" -> conformsTo(a.validator, a.optionsOrNext, a.next, value)
    [] a.op = "optional" -> optional(a.next, value)
    [] a.op = "nullable" -> nullable(a.next, value)
    [] a.op = "defaultsTo" -> defaultsTo(a.def, a.next, value)
    [] a.op = "onErrorDefaultsTo" -> onErrorDefaultsTo(a.def, a.next, value)
    [] a.op = "isBoolean" -> isBoolean(a.next, value)
    [] a.op = "isNumber" -> isNumber(a.next, value)
    [] a.op = "min" -> min(a.bound, a.next, value)
    [] a.op = "max" -> max(a.bound, a.next, value)
    [] a.op = "isString" -> isString(a.next, value)
    [] a.op = "matches" -> matches(a.regex, a.next, value)
    [] a.op = "minLength" -> minLength(a.bound, a.next, value)
    [] a.op = "maxLength" -> maxLength(a.bound, a.next, value)
    [] a.op = "lengthIs" -> lengthIs(a.bound, a.next, value)
    [] a.op = "isArray" -> isArray(a.next, value)
    [] a.op = "eachItem" -> eachItem(a.assertion, a.next, value)
    [] a.op = "isObject" -> isObject(a.next, value)
    [] a.op = "equals" -> equals(a.vals, value)
    [] a.op = "isMap" -> isMap(a.next, value)
    [] a.op = "eachValue" -> eachValue(a.assertion, a.next, value)
    [] a.op = "either" -> either(a.assertions, value)

\* the entry point: tryCatch(() => assertion(arg), errorFromException)
validate(value, a) == tryCatch(Invoke(a, value))

RECURSIVE extendWith(_, _, _)
\* for (const key in validator) result[key] = validator[key]
extendWith(target, validator, i) ==
  IF i > Len(keysOf(validator)) THEN target
  ELSE extendWith(SetProperty(target, keysOf(validator)[i],
                              OwnValue(validator, keysOf(validator)[i])),
                  validator, i + 1)

extendValidator(validator1, validator2) ==
  extendWith(extendWith(Obj("engine", <<>>), validator1, 1), validator2, 1)

(* ------------------- building assertions and inputs -------------------- *)

\* isBoolean, isNumber, isString, isArray, isObject, isMap, optional, nullable
Check(name, next) == [op |-> name, next |-> next]
\* min, max, minLength, maxLength, lengthIs
BoundCheck(name, bound, next) == [op |-> name, bound |-> bound, next |-> next]
Matches(regex, next) == [op |-> "matches", regex |-> regex, next |-> next]
Equals(vals) == [op |-> "equals", vals |-> vals]
DefaultsTo(def, next) == [op |-> "defaultsTo", def |-> def, next |-> next]
OnErrorDefaultsTo(def, next) == [op |-> "onErrorDefaultsTo", def |-> def, next |-> next]
ConformsTo(validator, optionsOrNext, next) ==
  [op |-> "conformsTo", validator |-> validator, optionsOrNext |-> optionsOrNext,
   next |-> next]
EachItem(a, next) == [op |-> "eachItem", assertion |-> a, next |-> next]
EachValue(a, next) == [op |-> "eachValue", assertion |-> a, next |-> next]
Either(assertions) == [op |-> "either", assertions |-> assertions]
\* assertions the caller wrote
Throws(err) == [op |-> "caller", does |-> "throw", err |-> err]
Fails(errors) == [op |-> "caller", does |-> "fail", errors |-> errors]
Replaces(value) == [op |-> "caller", does |-> "replace", value |-> value]
Passes == [op |-> "caller", does |-> "pass"]

\* a property left out of an object of the inputs
Absent == [t |-> "absent"]

\* the object with the given keys in the given order, the absent ones left out
ObjectOf(origin, keys, vals) ==
  Obj(origin, SelectSeq([i \in 1..Len(keys) |-> [k |-> keys[i], v |-> vals[i]]],
                        LAMBDA p : p.v # Absent))

\* the sequences over S of length up to n
SeqsUpTo(S, n) == UNION {[1..k -> S] : k \in 0..n}

\* those without a repeated element
DistinctSeqsUpTo(S, n) ==
  {q \in SeqsUpTo(S, n) : \A i, j \in 1..Len(q) : i # j => q[i] # q[j]}

Numbers == (0 - MaxInt)..MaxInt

\* what a caller's assertion may throw
ThrownValues ==
  {Err("Error", "boom"), Err("Error", ""), Str("oops"), Undefined, Null,
   Obj("caller", <<>>)}

\* an ErrorResult with two errors, as a caller's assertion may return
TwoErrors == <<ValidationError("CUSTOM_A", "first"), ValidationError("CUSTOM_B", "second")>>

StringChain == Check("isString", BoundCheck("minLength", 1, Undefined))
NumberChain == Check("isNumber", BoundCheck("min", 0, Undefined))
TagsChain == Check("isArray", EachItem(Check("isString", Undefined), Undefined))

NameAssertions ==
  {StringChain,
   Check("optional", Check("isString", Undefined)),
   BoundCheck("minLength", 1, Undefined),
   Fails(TwoErrors),
   Throws(Err("Error", "boom")),
   Throws(Null)}

AgeAssertions ==
  {NumberChain,
   Check("isNumber", BoundCheck("min", 0, BoundCheck("max", MaxInt, Undefined))),
   DefaultsTo(Num(0), Check("isNumber", Undefined)),
   Throws(Str("oops"))}

TagsAssertions ==
  {TagsChain,
   Check("isMap", EachValue(StringChain, Undefined)),
   Check("isArray", EachItem(Throws(Str("oops")), Undefined)),
   ConformsTo(Obj("caller", <<[k |-> "name", v |-> Throws(Err("Error", "boom"))],
                               [k |-> "age", v |-> NumberChain]>>),
              Undefined, Undefined),
   ConformsTo(Obj("caller", <<[k |-> "name", v |-> StringChain],
                               [k |-> "age", v |-> NumberChain]>>),
              Undefined, Undefined)}

\* the validators: the declared keys in several orders
Validators ==
  {Obj("caller", <<>>)}
  \cup {Obj("caller", <<[k |-> "name", v |-> n]>>) : n \in NameAssertions}
  \cup {Obj("caller", <<[k |-> "name", v |-> n], [k |-> "age", v |-> a]>>) :
          n \in NameAssertions, a \in AgeAssertions}
  \cup {Obj("caller", <<[k |-> "age", v |-> a], [k |-> "name", v |-> n]>>) :
          n \in NameAssertions, a \in AgeAssertions}
  \cup {Obj("caller", <<[k |-> "tags", v |-> t], [k |-> "name", v |-> n],
                        [k |-> "age", v |-> a]>>) :
          n \in {StringChain, Fails(TwoErrors)}, a \in {NumberChain}, t \in TagsAssertions}

NameValues == {Absent, Str(""), Str("a"), Num(0)}
AgeValues == {Absent, Str("a")} \cup {Num(n) : n \in Numbers}
TagsValues ==
  {Absent, Arr("caller", <<Str("a"), Num(2), Str("c")>>),
   Obj("caller", <<[k |-> "name", v |-> Str("")], [k |-> "age", v |-> Num(0 - 1)]>>)}
  \cup {Arr("caller", q) : q \in SeqsUpTo({Str("a"), Num(0)}, MaxItems)}

\* inputs that are not plain objects
NonObjects ==
  {Undefined, Null, Bool(TRUE), Num(0), Str("a"), Arr("caller", <<>>),
   Arr("caller", <<Str("a")>>)}

DeclaredObjects ==
  {ObjectOf("caller", <<"name", "age", "tags">>, <<n, a, t>>) :
     n \in NameValues, a \in AgeValues, t \in TagsValues}

(* ------------------------------ the calls ------------------------------ *)

Init ==
  /\ pc = "idle"
  /\ entry = "none"
  /\ assertion = Undefined
  /\ arg = Undefined
  /\ outcome = [tag |-> "none"]
  /\ result = [tag |-> "none"]
  /\ rendering = [text |-> "none"]
  /\ heap = <<>>
  /\ stack = <<>>
  /\ reg = [tag |-> "none"]
  /\ log = <<>>
  /\ history = <<>>

\* one call assertion(value), alone and through validate
Call(name, a, value) ==
  /\ pc' = "done"
  /\ entry' = name
  /\ assertion' = a
  /\ arg' = value
  /\ outcome' = Apply(a, value)
  /\ result' = validate(value, a)
  /\ UNCHANGED <<rendering, machine>>

\* validate(arg, conformsTo(validator))
ConformsToCall ==
  /\ pc = "idle"
  /\ \E validator \in Validators, value \in DeclaredObjects \cup NonObjects :
       Call("conformsTo", ConformsTo(validator, Undefined, Undefined), value)

\* the options object of conformsTo
Options ==
  {Undefined, Obj("caller", <<>>),
   Obj("caller", <<[k |-> "allowAdditionalProperties", v |-> Bool(TRUE)]>>),
   Obj("caller", <<[k |-> "allowAdditionalProperties", v |-> Bool(FALSE)]>>)}

OptionValidators ==
  {Obj("caller", <<>>),
   Obj("caller", <<[k |-> "name", v |-> StringChain]>>),
   Obj("caller", <<[k |-> "name", v |-> StringChain], [k |-> "age", v |-> NumberChain]>>),
   Obj("caller", <<[k |-> "age", v |-> Fails(TwoErrors)],
                   [k |-> "name", v |-> Throws(Err("Error", "boom"))]>>)}

ExtraKeys == {"x", "y", "__proto__"}

\* objects with keys the validators do not declare, before or after the declared ones
ObjectsWithExtras ==
  LET declared == {<<[k |-> "name", v |-> n], [k |-> "age", v |-> a]>> :
                     n \in {Str(""), Str("a")}, a \in {Num(0), Num(0 - 1)}}
                  \cup {<<[k |-> "name", v |-> Str("a")]>>, <<>>}
      extras == {[i \in 1..Len(q) |-> [k |-> q[i], v |-> Num(0)]] :
                   q \in DistinctSeqsUpTo(ExtraKeys, MaxExtra)}
  IN {Obj("caller", d \o e) : d \in declared, e \in extras}
     \cup {Obj("caller", e \o d) : d \in declared, e \in extras}

\* validate(arg, conformsTo(validator, options))
ConformsToOptionsCall ==
  /\ pc = "idle"
  /\ \E validator \in OptionValidators, options \in Options,
        value \in ObjectsWithExtras \cup {Null} :
       Call("conformsTo", ConformsTo(validator, options, Undefined), value)

\* the assertions handed to conformsTo as its next
NextAssertions == {Fails(TwoErrors), Replaces(Num(1)), Check("isObject", Undefined)}

\* validate(arg, conformsTo(validator, next)) and
\* validate(arg, conformsTo(validator, options, next))
ConformsToNextCall ==
  /\ pc = "idle"
  /\ \E validator \in OptionValidators, next \in NextAssertions,
        form \in {<<"next">>} \cup {<<"options", o>> : o \in Options \ {Undefined}},
        value \in ObjectsWithExtras \cup {Null, Num(0)} :
       Call("conformsTo",
            IF form[1] = "next" THEN ConformsTo(validator, next, Undefined)
            ELSE ConformsTo(validator, form[2], next),
            value)

ItemAssertions ==
  {Check("isString", Undefined), NumberChain, Fails(TwoErrors),
   Throws(Err("Error", "boom")), Throws(Null),
   ConformsTo(Obj("caller", <<[k |-> "name", v |-> StringChain]>>), Undefined, Undefined),
   OnErrorDefaultsTo(Str("d"), Check("isString", Undefined)),
   DefaultsTo(Num(0), NumberChain)}

Items ==
  {Str("a"), Undefined, Obj("caller", <<[k |-> "name", v |-> Str("")]>>)}
  \cup {Num(n) : n \in Numbers}

\* validate(arg, eachItem(assertion, next))
EachItemCall ==
  /\ pc = "idle"
  /\ \E a \in ItemAssertions, next \in {Undefined, BoundCheck("minLength", 2, Undefined)},
        value \in {Arr("caller", q) : q \in SeqsUpTo(Items, MaxItems)}
                  \cup {Undefined, Str("a")} :
       Call("eachItem", EachItem(a, next), value)

MapKeys == {"a", "b", "__proto__"}
MapValues == {Str("a"), Num(0), Num(0 - 1)}

Maps ==
  UNION {{Obj("caller", [i \in 1..Len(q) |-> [k |-> q[i], v |-> vs[i]]]) :
            vs \in [1..Len(q) -> MapValues]} :
         q \in DistinctSeqsUpTo(MapKeys, MaxExtra)}

\* validate(arg, eachValue(assertion, next))
EachValueCall ==
  /\ pc = "idle"
  /\ \E a \in {Check("isString", Undefined), NumberChain, Fails(TwoErrors),
               Throws(Err("Error", "boom")), DefaultsTo(Num(0), NumberChain)},
        next \in {Undefined, Fails(TwoErrors)},
        value \in Maps \cup {Null, Arr("caller", <<Num(0)>>)} :
       Call("eachValue", EachValue(a, next), value)

Alternatives ==
  {Check("isString", Undefined), NumberChain, Check("isBoolean", Undefined),
   ConformsTo(Obj("caller", <<[k |-> "name", v |-> StringChain]>>), Undefined, Undefined),
   ConformsTo(Obj("caller", <<[k |-> "name", v |-> DefaultsTo(Str("a"), Undefined)],
                              [k |-> "age", v |-> NumberChain]>>), Undefined, Undefined),
   TagsChain, Throws(Err("Error", "boom"))}

EitherInputs ==
  {Undefined, Bool(TRUE), Str("a"), Obj("caller", <<[k |-> "name", v |-> Str("")]>>),
   Obj("caller", <<[k |-> "age", v |-> Num(1)]>>),
   Obj("caller", <<[k |-> "name", v |-> Str("a")]>>),
   Arr("caller", <<Num(0), Str("a")>>)}
  \cup {Num(n) : n \in Numbers}

\* validate(arg, either(assertion1, ..., assertionN))
EitherCall ==
  /\ pc = "idle"
  /\ \E assertions \in SeqsUpTo(Alternatives, MaxAlts), value \in EitherInputs :
       Call("either", Either(assertions), value)

\* a regular expression: /^a+$/ over the strings of the model
LettersA == [source |-> "/^a+$/", accepts |-> {"a", "aa"}]

TopAssertions ==
  {Throws(e) : e \in ThrownValues}
  \cup {Fails(TwoErrors), Passes, Replaces(Num(1))}
  \cup {Check(name, next) :
          name \in {"isBoolean", "isNumber", "isString", "isArray", "isObject", "isMap",
                    "optional", "nullable"},
          next \in {Undefined, Throws(Null)}}
  \cup {BoundCheck(name, 1, Undefined) :
          name \in {"min", "max", "minLength", "maxLength", "lengthIs"}}
  \cup {StringChain, NumberChain, TagsChain, Matches(LettersA, Undefined),
        Equals(<<Num(1)>>), Equals(<<Str("a"), Null>>),
        Equals(<<Num(0), Bool(TRUE)>>), Equals(<<Obj("caller", <<>>)>>),
        DefaultsTo(Str("a"), StringChain),
        OnErrorDefaultsTo(Num(0), Throws(Null)),
        OnErrorDefaultsTo(Num(0), NumberChain)}
  \cup {BoundCheck(name, 1, next) :
          name \in {"min", "max", "minLength", "maxLength", "lengthIs"},
          next \in {Fails(TwoErrors), Replaces(Num(1))}}
  \cup {Matches(LettersA, Fails(TwoErrors))}
  \cup {OnErrorDefaultsTo(Obj("caller", <<[k |-> "name", v |-> Str("a")],
                                           [k |-> "x", v |-> Num(0)]>>),
          ConformsTo(Obj("caller", <<[k |-> "name", v |-> StringChain]>>),
                     Undefined, Undefined))}
  \cup {OnErrorDefaultsTo(Num(0), next) :
          next \in {Fails(TwoErrors), Throws(Err("Error", "boom")), Throws(Str("oops")),
                    Throws(Undefined), StringChain}}
  \cup {DefaultsTo(def, next) :
          def \in {Str(""), Num(0)}, next \in {Undefined, StringChain, NumberChain}}
  \cup {Check(name, next) :
          name \in {"optional", "nullable"},
          next \in {StringChain, Fails(TwoErrors), Replaces(Num(1)),
                    Throws(Err("Error", "boom"))}}

TopInputs ==
  {Undefined, Null, Bool(TRUE), Bool(FALSE), Str(""), Str("a"), Str("aa"), Str("1"),
   Arr("caller", <<>>), Arr("caller", <<Num(1)>>), Arr("caller", <<Str("a"), Num(0)>>),
   Obj("caller", <<>>), Obj("caller", <<[k |-> "length", v |-> Num(1)]>>)}
  \cup {Num(n) : n \in Numbers}

\* validate(arg, assertion) for a single assertion or chain
ValidateCall ==
  /\ pc = "idle"
  /\ \E a \in TopAssertions, value \in TopInputs : Call("validate", a, value)

\* the bounds given to min, max, minLength, maxLength and lengthIs
BoundValues == Numbers \cup {MaxItems}

\* numbers about the bounds, and strings and arrays of every length up to MaxItems
BoundInputs ==
  {Num(n) : n \in (0 - MaxInt - 1)..(MaxInt + 1)}
  \cup {Str(JoinStrings([i \in 1..n |-> "a"], "")) : n \in 0..MaxItems}
  \cup {Arr("caller", [i \in 1..n |-> Num(0)]) : n \in 0..MaxItems}

\* validate(arg, min(m)), and the same for max, minLength, maxLength and
\* lengthIs, and validate(arg, min(a, max(b)))
BoundCall ==
  /\ pc = "idle"
  /\ \E a \in {BoundCheck(name, b, Undefined) :
                  name \in {"min", "max", "minLength", "maxLength", "lengthIs"},
                  b \in BoundValues}
              \cup {BoundCheck("min", lo, BoundCheck("max", hi, Undefined)) :
                      lo \in Numbers, hi \in Numbers},
        value \in BoundInputs :
       Call("bound", a, value)

\* the roots a caller passes to toString: the default and one of the caller's
Roots == {DefaultRoot, "input"}

\* errors as they leave the engine, under keys that are barewords and keys
\* that are not, and under indices
SampleErrors ==
  {ValidationError("NOT_STRING", "Expected string, got number"),
   [ValidationError("NOT_STRING", "Expected string, got number")
      EXCEPT !.path = <<KeyPathNode("tags"), ArrayIndexPathNode(1)>>],
   [ValidationError("LESS_THAN_MIN", "-1 is less than 0")
      EXCEPT !.path = <<KeyPathNode("first name")>>],
   [ValidationError("CUSTOM_A", "first")
      EXCEPT !.path = <<KeyPathNode("it's"), KeyPathNode("$a_1")>>],
   [ValidationError("CUSTOM_B", "")
      EXCEPT !.path = <<ArrayIndexPathNode(0), KeyPathNode("1a"), KeyPathNode("")>>]}

\* new ErrorResult(errors).toString(root)
ToStringCall ==
  /\ pc = "idle"
  /\ \E errors \in SeqsUpTo(SampleErrors, MaxErrors), root \in Roots :
       /\ pc' = "rendered"
       /\ rendering' = [errors |-> errors, root |-> root,
                        text |-> ErrorResultToString(errors, root)]
  /\ UNCHANGED <<entry, assertion, arg, outcome, result, machine>>

\* result.toString(root) on the Failure validate returned
ResultToStringCall ==
  /\ pc = "done"
  /\ result.tag = "error"
  /\ \E root \in Roots :
       /\ pc' = "rendered"
       /\ rendering' = [errors |-> result.errors, root |-> root,
                        text |-> ErrorResultToString(result.errors, root)]
  /\ UNCHANGED <<entry, assertion, arg, outcome, result, machine>>

Next ==
  \/ ToStringCall
  \/ ResultToStringCall
  \/ ValidateCall
  \/ ConformsToCall
  \/ BoundCall
  \/ ConformsToOptionsCall
  \/ ConformsToNextCall
  \/ EachItemCall
  \/ EachValueCall
  \/ EitherCall

Spec == Init /\ [][Next]_vars

(* ------------------------- the engine on a heap ------------------------ *)

\* a reference to the cell heap[at]
Ref(at) == [t |-> "ref", at |-> at]
IsRef(x) == ~IsFunction(x) /\ x.t = "ref"

\* the parameters a closure captures that hold one value or one assertion
CapturedOne == <<"next", "def", "validator", "optionsOrNext", "assertion", "value">>
\* and those that hold a list of them
CapturedMany == {"assertions", "vals"}

RECURSIVE Store(_, _)
RECURSIVE StoreSeq(_, _)
\* the objects and arrays in x laid out in cells from address base + 1 on, an
\* object before what it holds: `cells` are the cells and `val` is x with a
\* reference in the place of every object and array. An assertion is a
\* closure: it is no cell, the objects it captured are
Store(x, base) ==
  IF IsFunction(x)
  THEN LET one == SelectSeq(CapturedOne, LAMBDA f : f \in DOMAIN x)
           many == IF "assertions" \in DOMAIN x THEN x.assertions
                   ELSE IF "vals" \in DOMAIN x THEN x.vals ELSE <<>>
           s == StoreSeq([i \in 1..Len(one) |-> x[one[i]]] \o many, base)
       IN [cells |-> s.cells,
           val |-> [f \in DOMAIN x |->
                      IF f \in CapturedMany
                      THEN [i \in 1..Len(many) |-> s.vals[Len(one) + i]]
                      ELSE IF \E i \in 1..Len(one) : one[i] = f
                      THEN s.vals[CHOOSE i \in 1..Len(one) : one[i] = f]
                      ELSE x[f]]]
  ELSE IF x.t = "object"
  THEN LET s == StoreSeq([i \in 1..Len(x.props) |-> x.props[i].v], base + 1)
       IN [cells |-> <<[x EXCEPT !.props = [i \in 1..Len(x.props) |->
                          [k |-> x.props[i].k, v |-> s.vals[i]]]]>> \o s.cells,
           val |-> Ref(base + 1)]
  ELSE IF x.t = "array"
  THEN LET s == StoreSeq(x.items, base + 1)
       IN [cells |-> <<[x EXCEPT !.items = s.vals]>> \o s.cells,
           val |-> Ref(base + 1)]
  ELSE [cells |-> <<>>, val |-> x]

StoreSeq(xs, base) ==
  IF xs = <<>> THEN [cells |-> <<>>, vals |-> <<>>]
  ELSE LET s == Store(xs[1], base)
           rest == StoreSeq(Tail(xs), base + Len(s.cells))
       IN [cells |-> s.cells \o rest.cells, vals |-> <<s.val>> \o rest.vals]

RECURSIVE Load(_, _)
\* the value x stands for in heap h: every reference followed
Load(h, x) ==
  IF IsFunction(x)
  THEN [f \in DOMAIN x |->
          IF f \in CapturedMany THEN [i \in 1..Len(x[f]) |-> Load(h, x[f][i])]
          ELSE IF \E i \in 1..Len(CapturedOne) : CapturedOne[i] = f THEN Load(h, x[f])
          ELSE x[f]]
  ELSE IF ~IsRef(x) THEN x
  ELSE LET cell == h[x.at]
       IN IF "errorCode" \in DOMAIN cell THEN cell
          ELSE IF cell.t = "object"
          THEN [cell EXCEPT !.props = [i \in 1..Len(cell.props) |->
                  [k |-> cell.props[i].k, v |-> Load(h, cell.props[i].v)]]]
          ELSE [cell EXCEPT !.items = [i \in 1..Len(cell.items) |-> Load(h, cell.items[i])]]

\* the cell a value stands for, or the value itself when it is no reference
Cell(h, x) == IF IsRef(x) THEN h[x.at] ELSE x

\* what an activation holds: the closure `a` and its argument, `id` the place
\* of its call in the log, `at` where its body stands, `i` the index of the
\* loop it is in, `errors` and `results` what the loop has gathered so far,
\* `target` the object the body is filling
Frame(a, x, id) ==
  [a |-> a, arg |-> x, id |-> id, at |-> "call", i |-> 1, errors |-> <<>>,
   results |-> <<>>, target |-> Undefined]

Top == stack[Len(stack)]

Nothing == [tag |-> "none"]
Returned(value) == [tag |-> "success", value |-> value]
Failed(errors) == [tag |-> "error", errors |-> errors]
Thrown(err) == [tag |-> "throw", err |-> err]

RECURSIVE NewErrorsCached(_, _)
\* an error() that keeps one ValidationError for each code and message and
\* hands it out again
NewErrorsCached(h, errors) ==
  IF errors = <<>> THEN [heap |-> h, refs |-> <<>>]
  ELSE LET known == {n \in 1..Len(h) : /\ "errorCode" \in DOMAIN h[n]
                                       /\ h[n].errorCode = errors[1].errorCode
                                       /\ h[n].message = errors[1].message}
           first == IF known = {}
                    THEN [heap |-> Append(h, errors[1]), ref |-> Ref(Len(h) + 1)]
                    ELSE [heap |-> h, ref |-> Ref(CHOOSE n \in known : TRUE)]
           rest == NewErrorsCached(first.heap, Tail(errors))
       IN [heap |-> rest.heap, refs |-> <<first.ref>> \o rest.refs]

\* new ValidationError(...) for each of the errors: every one is a new cell
NewErrors(h, errors) ==
  [heap |-> h \o errors, refs |-> [i \in 1..Len(errors) |-> Ref(Len(h) + i)]]

RECURSIVE addPathNodeAt(_, _, _)
\* ErrorResult.addPathNode: this.path.unshift(node) on every error, one
\* after the other, in place
addPathNodeAt(h, refs, node) ==
  IF refs = <<>> THEN h
  ELSE addPathNodeAt([h EXCEPT ![refs[1].at].path = <<node>> \o @], Tail(refs), node)

\* tryCatch(func, (err) => errorFromException(err)), o what func() did: the
\* heap afterwards and what the tryCatch returns or throws
Caught(h, o) ==
  IF o.tag # "throw" THEN [heap |-> h, out |-> o]
  ELSE LET c == errorFromException(o.err)
       IN IF c.tag = "throw" THEN [heap |-> h, out |-> Thrown(c.err)]
          ELSE LET n == NewErrors(h, c.errors)
               IN [heap |-> n.heap, out |-> Failed(n.refs)]

\* the variables of the calls taken in one step
bigStep == <<entry, assertion, arg, outcome, result, rendering>>

\* the running activation ends: it returns or throws o, the heap now h
Ends(h, o) ==
  /\ heap' = h
  /\ stack' = SubSeq(stack, 1, Len(stack) - 1)
  /\ reg' = o
  /\ log' = log

\* the running activation returns an ErrorResult of new errors
ReturnsErrors(h, errors) ==
  LET n == NewErrors(h, errors) IN Ends(n.heap, Failed(n.refs))

\* the running activation goes on as frame f
GoesOn(h, f) ==
  /\ heap' = h
  /\ stack' = [stack EXCEPT ![Len(stack)] = f]
  /\ reg' = Nothing
  /\ log' = log

\* the running activation, from now on frame f, calls a(x) and waits for it
Calls(h, f, a, x, role) ==
  /\ heap' = h
  /\ stack' = Append([stack EXCEPT ![Len(stack)] = f], Frame(a, x, Len(log) + 1))
  /\ reg' = Nothing
  /\ log' = Append(log, [a |-> Load(h, a), arg |-> Load(h, x), by |-> f.id,
                         role |-> role])

\* return next ? next(x) : success(x)
Chains(h, next, x) ==
  IF next = Undefined THEN Ends(h, Returned(x))
  ELSE /\ heap' = h
       /\ stack' = Append(SubSeq(stack, 1, Len(stack) - 1), Frame(next, x, Len(log) + 1))
       /\ reg' = Nothing
       /\ log' = Append(log, [a |-> Load(h, next), arg |-> Load(h, x), by |-> Top.id,
                              role |-> "next"])

\* the activation of a closure `name` returned is the one running
Running(names) == pc = "running" /\ Top.a.op \in names

\* what a closure's own check does, o its outcome on the value alone: the
\* check passes and the value goes down the chain, or it fails, or it throws
Checked(o, next, x) ==
  CASE o.tag = "success" -> Chains(heap, next, x)
    [] o.tag = "error" -> ReturnsErrors(heap, o.errors)
    [] OTHER -> Ends(heap, Thrown(o.err))

\* an assertion the caller wrote: an ErrorResult it returns is built by the
\* call, a value it returns is the one its closure holds
callerStep ==
  /\ Running({"caller"})
  /\ LET a == Top.a
     IN CASE a.does = "throw" -> Ends(heap, Thrown(a.err))
          [] a.does = "fail" -> ReturnsErrors(heap, a.errors)
          [] a.does = "replace" -> Ends(heap, Returned(a.value))
          [] OTHER -> Ends(heap, Returned(Top.arg))
  /\ UNCHANGED <<pc, history, bigStep>>

\* optional, nullable, defaultsTo
modifierStep ==
  /\ Running({"optional", "nullable", "defaultsTo"})
  /\ LET a == Top.a
         x == Top.arg
     IN CASE a.op = "optional" ->
               IF x = Undefined THEN Ends(heap, Returned(Undefined))
               ELSE Chains(heap, a.next, x)
          [] a.op = "nullable" ->
               IF x = Null THEN Ends(heap, Returned(Null))
               ELSE Chains(heap, a.next, x)
          [] OTHER -> Chains(heap, a.next, IF x = Undefined THEN a.def ELSE x)
  /\ UNCHANGED <<pc, history, bigStep>>

\* isBoolean, isNumber, min, max, isString, matches, minLength, maxLength,
\* lengthIs, isArray, isObject, isMap: the check reads the argument only
checkStep ==
  /\ Running({"isBoolean", "isNumber", "min", "max", "isString", "matches",
              "minLength", "maxLength", "lengthIs", "isArray", "isObject", "isMap"})
  /\ Checked(Apply([Top.a EXCEPT !.next = Undefined], Load(heap, Top.arg)),
             Top.a.next, Top.arg)
  /\ UNCHANGED <<pc, history, bigStep>>

\* equals: val === arg holds of an object only for the same object
equalsStep ==
  /\ Running({"equals"})
  /\ IF \E i \in 1..Len(Top.a.vals) : IsRef(Top.arg) /\ Top.a.vals[i] = Top.arg
     THEN Ends(heap, Returned(Top.arg))
     ELSE Checked(equals(Load(heap, Top.a).vals, Load(heap, Top.arg)), Undefined, Top.arg)
  /\ UNCHANGED <<pc, history, bigStep>>

onErrorDefaultsToStep ==
  /\ Running({"onErrorDefaultsTo"})
  /\ \/ /\ Top.at = "call"
        /\ Calls(heap, [Top EXCEPT !.at = "result"], Top.a.next, Top.arg, "next")
     \/ /\ Top.at = "result"
        /\ LET res == Caught(heap, reg)
           IN IF res.out.tag = "error" THEN Ends(res.heap, Returned(Top.a.def))
              ELSE Ends(res.heap, res.out)
  /\ UNCHANGED <<pc, history, bigStep>>

\* assertion(arg) for each alternative in turn, outside any tryCatch
eitherStep ==
  /\ Running({"either"})
  /\ \/ /\ Top.at = "call"
        /\ Top.i <= Len(Top.a.assertions)
        /\ Calls(heap, [Top EXCEPT !.at = "result"], Top.a.assertions[Top.i], Top.arg,
                 "alternative")
     \/ /\ Top.at = "result"
        /\ IF reg.tag = "error"
           THEN GoesOn(heap, [Top EXCEPT !.at = "call", !.i = @ + 1,
                                         !.errors = @ \o reg.errors])
           ELSE Ends(heap, reg)
     \/ /\ Top.at = "call"
        /\ Top.i > Len(Top.a.assertions)
        /\ LET errors == [j \in 1..Len(Top.errors) |-> heap[Top.errors[j].at]]
           IN ReturnsErrors(heap,
                error("NO_MATCH", "No match found - the following assertions failed:\n    " \o
                  JoinStrings([j \in 1..Len(errors) |->
                                 ErrorToString(errors[j], DefaultRoot)], "\n    ")).errors)
  /\ UNCHANGED <<pc, history, bigStep>>

\* a conformsTo that gives every assertion of the validator the whole object
PropertyWhole(h, x, key) == x

\* arg[key]
Property(h, x, key) == OwnValue(Cell(h, x), key)

\* a conformsTo that fills in the object it was given
partiallyValidatedInPlace(h, x) == [heap |-> h, ref |-> x]

\* const partiallyValidated = {}: a new object, whatever the argument x
partiallyValidated(h, x) ==
  [heap |-> Append(h, Obj("engine", <<>>)), ref |-> Ref(Len(h) + 1)]

\* the closure conformsTo returns. "call": the isObject check, then
\* partiallyValidated = {}; "reduce": the next key of the validator, or what
\* follows the reduce; "result": what tryCatch made of validator[key](arg[key])
conformsToStep ==
  /\ Running({"conformsTo"})
  /\ LET a == Top.a
         validator == Cell(heap, a.validator)
         keys == keysOf(validator)
     IN \/ /\ Top.at = "call"
           /\ IF NotObject(Load(heap, Top.arg))
              THEN ReturnsErrors(heap, NotObjectError(Load(heap, Top.arg)).errors)
              ELSE LET new == partiallyValidated(heap, Top.arg)
                   IN GoesOn(new.heap, [Top EXCEPT !.at = "reduce", !.target = new.ref])
        \/ /\ Top.at = "reduce"
           /\ Top.i <= Len(keys)
           /\ IF PropertyReadThrows(Top.arg)
              THEN /\ heap' = heap
                   /\ stack' = [stack EXCEPT ![Len(stack)].at = "result"]
                   /\ reg' = Thrown(PropertyTypeError(Top.arg, keys[Top.i]))
                   /\ log' = log
              ELSE Calls(heap, [Top EXCEPT !.at = "result"], OwnValue(validator, keys[Top.i]),
                         Property(heap, Top.arg, keys[Top.i]), "field")
        \/ /\ Top.at = "result"
           /\ LET res == Caught(heap, reg)
                  key == keys[Top.i]
              IN CASE res.out.tag = "throw" -> Ends(res.heap, res.out)
                   [] res.out.tag = "error" ->
                        GoesOn(addPathNodeAt(res.heap, res.out.errors, KeyPathNode(key)),
                               [Top EXCEPT !.at = "reduce", !.i = @ + 1,
                                           !.errors = @ \o res.out.errors])
                   [] OTHER ->
                        GoesOn([res.heap EXCEPT ![Top.target.at] =
                                  SetProperty(@, key, res.out.value)],
                               [Top EXCEPT !.at = "reduce", !.i = @ + 1])
        \/ /\ Top.at = "reduce"
           /\ Top.i > Len(keys)
           /\ LET pushed == NewErrors(heap,
                    IF ~AllowAdditionalProperties(Load(heap, a.optionsOrNext))
                    THEN AdditionalPropertiesErrors(validator, Load(heap, Top.arg))
                    ELSE <<>>)
                  errors == Top.errors \o pushed.refs
              IN IF Len(errors) > 0 THEN Ends(pushed.heap, Failed(errors))
                 ELSE Chains(pushed.heap, a.next, Top.target)
  /\ UNCHANGED <<pc, history, bigStep>>

\* the validator eachValue builds in a new object, then conformsTo(...)(arg)
eachValueStep ==
  /\ Running({"eachValue"})
  /\ IF PropertyReadThrows(Top.arg)
     THEN Ends(heap, Thrown(Err("TypeError", "Cannot convert undefined or null to object")))
     ELSE GoesOn(Append(heap, eachValueValidator(Top.a.assertion,
                                ObjectKeys(Load(heap, Top.arg)), 1, Obj("engine", <<>>))),
                 [Top EXCEPT !.a = ConformsTo(Ref(Len(heap) + 1), Undefined, Undefined)])
  /\ UNCHANGED <<pc, history, bigStep>>

RECURSIVE eachItemPaths(_, _, _)
\* results.map(...): addPathNode(new ArrayIndexPathNode(index)) on every
\* ErrorResult among the results, by ascending index
eachItemPaths(h, results, i) ==
  IF i > Len(results) THEN h
  ELSE eachItemPaths(IF results[i].tag = "error"
                     THEN addPathNodeAt(h, results[i].errors, ArrayIndexPathNode(i - 1))
                     ELSE h, results, i + 1)

RECURSIVE eachItemConcat(_, _)
\* .filter(isErrorResult).reduce((errors, result) => errors.concat(result.errors), [])
eachItemConcat(results, i) ==
  IF i > Len(results) THEN <<>>
  ELSE (IF results[i].tag = "error" THEN results[i].errors ELSE <<>>)
       \o eachItemConcat(results, i + 1)

\* the closure eachItem returns. "call": arg.map is looked up; "map": the next
\* item, or what follows the map; "result": what tryCatch made of assertion(item)
eachItemStep ==
  /\ Running({"eachItem"})
  /\ LET a == Top.a
         array == Cell(heap, Top.arg)
     IN \/ /\ Top.at = "call"
           /\ IF InstanceOfArray(array) THEN GoesOn(heap, [Top EXCEPT !.at = "map"])
              ELSE Ends(heap, Thrown(IF PropertyReadThrows(array)
                                     THEN PropertyTypeError(array, "map")
                                     ELSE Err("TypeError", "arg.map is not a function")))
        \/ /\ Top.at = "map"
           /\ Top.i <= Len(array.items)
           /\ Calls(heap, [Top EXCEPT !.at = "result"], a.assertion, array.items[Top.i], "item")
        \/ /\ Top.at = "result"
           /\ LET res == Caught(heap, reg)
              IN IF res.out.tag = "throw" THEN Ends(res.heap, res.out)
                 ELSE GoesOn(res.heap, [Top EXCEPT !.at = "map", !.i = @ + 1,
                                                   !.results = Append(@, res.out)])
        \/ /\ Top.at = "map"
           /\ Top.i > Len(array.items)
           /\ IF \E i \in 1..Len(Top.results) : Top.results[i].tag = "error"
              THEN Ends(eachItemPaths(heap, Top.results, 1),
                        Failed(eachItemConcat(Top.results, 1)))
              ELSE Chains(Append(heap, Arr("engine", [i \in 1..Len(Top.results) |->
                                                        Top.results[i].value])),
                          a.next, Ref(Len(heap) + 1))
  /\ UNCHANGED <<pc, history, bigStep>>

\* what the caller sees of an outcome o in heap h: the result with every
\* reference followed, and the calls that were made
Seen(h, o, calls) ==
  CASE o.tag = "success" -> Success(Load(h, o.value), calls)
    [] o.tag = "error" -> Failure([i \in 1..Len(o.errors) |-> Load(h, o.errors[i])], calls)
    [] OTHER -> Throw(o.err, calls)

\* validate: tryCatch(() => assertion(arg), errorFromException); when it ends
\* the call joins the history with what it was given and what it gave back
validateStep ==
  /\ Running({"validate"})
  /\ \/ /\ Top.at = "call"
        /\ Calls(heap, [Top EXCEPT !.at = "result"], Top.a.assertion, Top.arg, "validate")
        /\ UNCHANGED <<pc, history>>
     \/ /\ Top.at = "result"
        /\ LET res == Caught(heap, reg)
           IN /\ Ends(res.heap, Nothing)
              /\ history' = Append(history,
                   [op |-> "validate", assertion |-> Top.a.assertion, arg |-> Top.arg,
                    spec |-> Top.spec, input |-> Top.input, result |-> res.out,
                    seen |-> Seen(res.heap, res.out,
                                  [i \in 1..Len(log) |-> [a |-> log[i].a, arg |-> log[i].arg]])])
        /\ pc' = "returned"
  /\ UNCHANGED bigStep

\* the caller calls validate(x, a), a and x already in the heap; the frame of
\* validate keeps what they were when the call was made
Validates(h, a, x) ==
  /\ pc' = "running"
  /\ heap' = h
  /\ stack' = <<Frame([op |-> "validate", assertion |-> a], x, 0)
                 @@ [spec |-> Load(h, a), input |-> Load(h, x)]>>
  /\ reg' = Nothing
  /\ log' = <<>>
  /\ UNCHANGED <<history, bigStep>>

\* validate calls a caller makes one after the other on the same heap
MaxCalls == 3

Strict == Obj("caller", <<[k |-> "allowAdditionalProperties", v |-> Bool(FALSE)]>>)

Person ==
  Obj("caller", <<[k |-> "name", v |-> StringChain],
                  [k |-> "age", v |-> DefaultsTo(Num(0), NumberChain)]>>)

\* an object a closure holds as its default or as the value it returns
Anyone == Obj("caller", <<[k |-> "name", v |-> Str("a")], [k |-> "x", v |-> Num(0)]>>)

HeapAssertions ==
  {ConformsTo(v, Undefined, Undefined) :
     v \in {w \in Validators : Len(w.props) = 3 /\ w.props[2].v = StringChain}}
  \cup {ConformsTo(Person, o, Undefined) : o \in {Undefined, Strict}}
  \cup {ConformsTo(Person, o, n) :
          o \in {Undefined, Strict},
          n \in {Check("isObject", Undefined), Replaces(Anyone), Fails(TwoErrors)}}
  \cup {DefaultsTo(Anyone, n) : n \in {Undefined, ConformsTo(Person, Strict, Undefined)}}
  \cup {OnErrorDefaultsTo(Anyone, n) :
          n \in {ConformsTo(Person, Strict, Undefined), Throws(Null), Throws(Str("oops"))}}
  \cup {Check("nullable", Check("isArray",
          EachItem(ConformsTo(Person, Undefined, Undefined),
                   BoundCheck("minLength", 1, Undefined)))),
        Check("optional", EachItem(Fails(TwoErrors), Undefined)),
        EachItem(OnErrorDefaultsTo(Anyone, Check("isObject", Undefined)), Undefined),
        EachItem(Throws(Null), Undefined),
        Check("isMap", EachValue(TagsChain, Undefined)),
        EachValue(ConformsTo(Person, Undefined, Undefined), Undefined),
        Either(<<TagsChain, ConformsTo(Person, Undefined, Undefined),
                 Equals(<<Null, Num(1)>>)>>),
        Either(<<Fails(TwoErrors), EachItem(Fails(TwoErrors), Undefined)>>),
        Either(<<Throws(Err("Error", "boom")), Passes>>),
        Equals(<<Anyone, Str("a")>>)}

HeapInputs ==
  {ObjectOf("caller", <<"name", "age", "tags">>, <<p[1], p[2], t>>) :
     p \in {<<Absent, Num(0 - 1)>>, <<Str("a"), Absent>>},
     t \in {Absent, Arr("caller", <<Str("a"), Num(2), Str("c")>>),
            Obj("caller", <<[k |-> "name", v |-> Str("")], [k |-> "age", v |-> Num(0 - 1)]>>)}
           \cup {Arr("caller", [i \in 1..n |-> Str("a")]) : n \in 0..MaxItems}}
  \cup {Undefined, Null, Num(1), Str("a")}
  \cup {Arr("caller", q) :
          q \in SeqsUpTo({Str("a"), Obj("caller", <<[k |-> "name", v |-> Str("a")]>>)},
                         MaxItems)}
  \cup {Obj("caller", <<[k |-> "a", v |-> Arr("caller", <<Str("a")>>)],
                        [k |-> "b", v |-> Arr("caller", <<Num(0)>>)]>>),
        Obj("caller", <<[k |-> "__proto__", v |-> Arr("caller", <<>>)],
                        [k |-> "a", v |-> Obj("caller", <<[k |-> "name", v |-> Num(0)]>>)]>>)}

\* the first call: validate(x, a), the caller's objects put in the heap
CallsValidate ==
  /\ pc = "idle"
  /\ \E a \in HeapAssertions, x \in HeapInputs :
       LET s == StoreSeq(<<a, x>>, Len(heap))
       IN Validates(heap \o s.cells, s.vals[1], s.vals[2])

\* the first call made again: the same closure on the same object
CallsValidateAgain ==
  /\ pc = "returned"
  /\ Len(history) < MaxCalls
  /\ LET first == IF history[1].op = "validate" THEN 1 ELSE 2
     IN /\ first <= Len(history)
        /\ Validates(heap, history[first].assertion, history[first].arg)

\* another call in between: the same object given to another closure, or
\* the same closure given another object
CallsValidateBetween ==
  /\ pc = "returned"
  /\ Len(history) = 1
  /\ history[1].op = "validate"
  /\ \/ LET s == Store(ConformsTo(Person, Undefined, Undefined), Len(heap))
        IN Validates(heap \o s.cells, s.val, history[1].arg)
     \/ LET s == Store(Obj("caller", <<[k |-> "name", v |-> Num(0)]>>), Len(heap))
        IN Validates(heap \o s.cells, history[1].assertion, s.val)

RECURSIVE extendWithAt(_, _, _, _)
\* for (const key in validator) result[key] = validator[key], on the objects
\* themselves
extendWithAt(h, target, validator, i) ==
  IF i > Len(keysOf(h[validator.at])) THEN h
  ELSE LET key == keysOf(h[validator.at])[i]
       IN extendWithAt([h EXCEPT ![target.at] =
                          SetProperty(@, key, OwnValue(h[validator.at], key))],
                       target, validator, i + 1)

\* an extendValidator that copies validator2 into validator1 and returns it
extendValidatorInto(h, validator1, validator2) ==
  [heap |-> extendWithAt(h, validator1, validator2, 1), result |-> validator1]

\* extendValidator: const result = {}, the two loops, return result
extendValidatorAt(h, validator1, validator2) ==
  LET made == Ref(Len(h) + 1)
  IN [heap |-> extendWithAt(extendWithAt(Append(h, Obj("engine", <<>>)),
                                         made, validator1, 1),
                            made, validator2, 1),
      result |-> made]

\* validators to extend and to extend with: keys in common and keys apart
ExtendValidators ==
  {Obj("caller", <<>>),
   Obj("caller", <<[k |-> "name", v |-> StringChain]>>),
   Obj("caller", <<[k |-> "name", v |-> Check("isNumber", Undefined)],
                   [k |-> "tags", v |-> Check("optional", TagsChain)]>>),
   Obj("caller", <<[k |-> "age", v |-> DefaultsTo(Num(0), NumberChain)],
                   [k |-> "name", v |-> Check("optional", StringChain)]>>),
   Obj("caller", <<[k |-> "tags", v |-> ConformsTo(Person, Strict, Undefined)],
                   [k |-> "age", v |-> NumberChain]>>)}

\* the caller builds a validator: extendValidator(validator1, validator2)
CallsExtendValidator ==
  /\ pc = "idle"
  /\ \E validator1 \in ExtendValidators, validator2 \in ExtendValidators :
       LET s == StoreSeq(<<validator1, validator2>>, Len(heap))
           built == extendValidatorAt(heap \o s.cells, s.vals[1], s.vals[2])
       IN /\ heap' = built.heap
          /\ history' = <<[op |-> "extendValidator", validator1 |-> s.vals[1],
                           validator2 |-> s.vals[2], given1 |-> validator1,
                           given2 |-> validator2, result |-> built.result]>>
  /\ pc' = "returned"
  /\ UNCHANGED <<stack, reg, log, bigStep>>

\* and validates with it: validate(x, conformsTo(result))
CallsValidateExtended ==
  /\ pc = "returned"
  /\ Len(history) = 1
  /\ history[1].op = "extendValidator"
  /\ \E x \in HeapInputs :
       LET s == Store(x, Len(heap))
       IN Validates(heap \o s.cells, ConformsTo(history[1].result, Undefined, Undefined),
                    s.val)

\* a step of the engine
Step ==
  \/ validateStep
  \/ callerStep
  \/ modifierStep
  \/ checkStep
  \/ equalsStep
  \/ onErrorDefaultsToStep
  \/ conformsToStep
  \/ eachItemStep
  \/ eachValueStep
  \/ eitherStep

HeapNext ==
  \/ CallsValidate
  \/ CallsValidateAgain
  \/ CallsValidateBetween
  \/ CallsExtendValidator
  \/ CallsValidateExtended
  \/ Step

\* a call runs to its end without waiting for anything: the engine is
\* synchronous, so a step that can be taken is taken
HeapSpec == Init /\ [][HeapNext]_vars /\ WF_vars(Step)

\* the step-by-step run gives what the run in one step gives
RunsAgree ==
  \A j \in 1..Len(history) :
    history[j].op = "validate" =>
      history[j].seen = validate(history[j].input, history[j].spec)

(* ------------------------------ the claims ----------------------------- *)

\* C1: validate returns a SuccessResult or an ErrorResult for every input and
\* every assertion, whatever the assertion throws (an Error, a string,
\* undefined, null): no exception leaves validate.
C1_ValidateNeverThrows == pc = "done" => result.tag \in {"success", "error"}

IsConformsToCall == pc = "done" /\ assertion.op = "conformsTo"

\* s is the beginning of t
IsPrefix(s, t) == Len(s) <= Len(t) /\ SubSeq(t, 1, Len(s)) = s

\* what the assertion of a declared field does on the field's value
FieldOutcome(validator, value, key) ==
  Apply(OwnValue(validator, key), OwnValue(value, key))

\* every field assertion returns a Result on its value
FieldsReturnResults(validator, value) ==
  \A i \in 1..Len(OwnKeys(validator)) :
    FieldOutcome(validator, value, OwnKeys(validator)[i]).tag # "throw"

RECURSIVE ExpectedFieldErrors(_, _, _)
\* the errors of the failing fields from the i-th on, in declaration order,
\* each under the key of its field
ExpectedFieldErrors(validator, value, i) ==
  IF i > Len(OwnKeys(validator)) THEN <<>>
  ELSE LET key == OwnKeys(validator)[i]
           o == FieldOutcome(validator, value, key)
       IN (IF o.tag = "error"
           THEN [j \in 1..Len(o.errors) |->
                   [o.errors[j] EXCEPT !.path = <<[key |-> key]>> \o @]]
           ELSE <<>>) \o ExpectedFieldErrors(validator, value, i + 1)

RECURSIVE ExpectedFieldCalls(_, _, _)
\* one call per declared field, in declaration order, with the calls it makes
ExpectedFieldCalls(validator, value, i) ==
  IF i > Len(OwnKeys(validator)) THEN <<>>
  ELSE LET key == OwnKeys(validator)[i]
       IN <<[a |-> OwnValue(validator, key), arg |-> OwnValue(value, key)]>>
          \o FieldOutcome(validator, value, key).calls
          \o ExpectedFieldCalls(validator, value, i + 1)

\* C2: conformsTo on an object calls the assertion of every declared field,
\* also after an earlier field failed, and the errors of the Failure are the
\* errors of the failing fields in declaration order, each field's errors
\* (those of a structure nested under it included) under its key, none
\* dropped; at most the additional-properties error follows them.
C2_AllFieldsChecked ==
  (IsConformsToCall /\ arg.t = "object" /\ FieldsReturnResults(assertion.validator, arg)) =>
    LET fieldErrors == ExpectedFieldErrors(assertion.validator, arg, 1)
        fieldCalls == ExpectedFieldCalls(assertion.validator, arg, 1)
    IN /\ IsPrefix(fieldCalls, outcome.calls)
       /\ fieldErrors # <<>> =>
            /\ outcome.tag = "error"
            /\ IsPrefix(fieldErrors, outcome.errors)
            /\ Len(outcome.errors) <= Len(fieldErrors) + 1
            /\ Len(outcome.errors) > Len(fieldErrors) =>
                 outcome.errors[Len(outcome.errors)].errorCode =
                   "UNEXPECTED_ADDITIONAL_PROPERTIES"

\* {name: isString(minLength(1)), age: isNumber(min(0))} on {name: "", age: -1}:
\* two errors, at .name then .age
C2_Witness ==
  /\ IsConformsToCall
  /\ arg = ObjectOf("caller", <<"name", "age">>, <<Str(""), Num(0 - 1)>>)
  /\ assertion.validator =
       Obj("caller", <<[k |-> "name", v |-> StringChain], [k |-> "age", v |-> NumberChain]>>)
  /\ outcome.tag = "error"
  /\ Len(outcome.errors) = 2
  /\ outcome.errors[1].path = <<KeyPathNode("name")>>
  /\ outcome.errors[1].errorCode = "LESS_THAN_MIN_LENGTH"
  /\ outcome.errors[2].path = <<KeyPathNode("age")>>
  /\ outcome.errors[2].errorCode = "LESS_THAN_MIN"

PrimitiveChecks ==
  {"isBoolean", "isNumber", "isString", "isArray", "isObject", "isMap", "min", "max",
   "matches", "minLength", "maxLength", "lengthIs"}

RECURSIVE IsPrimitiveChain(_)
IsPrimitiveChain(a) ==
  /\ a.op \in PrimitiveChecks
  /\ a.next # Undefined => IsPrimitiveChain(a.next)

\* a validator whose field assertions are chains of primitive checks
IsFlatValidator(validator) ==
  \A i \in 1..Len(validator.props) : IsPrimitiveChain(validator.props[i].v)

\* the declared keys whose value violates the field's assertion
ViolatingKeys(validator, value) ==
  {key \in {OwnKeys(validator)[i] : i \in 1..Len(OwnKeys(validator))} :
     FieldOutcome(validator, value, key).tag # "success"}

\* C3: for a flat conformsTo spec of primitive chains and an object in which
\* exactly one declared field violates its assertion, validate returns a
\* Failure with exactly one error, whose path is the one step KeyStep(field).
C3_SingleDeviation ==
  (/\ IsConformsToCall
   /\ assertion.optionsOrNext = Undefined
   /\ assertion.next = Undefined
   /\ IsFlatValidator(assertion.validator)
   /\ arg.t = "object"
   /\ Cardinality(ViolatingKeys(assertion.validator, arg)) = 1) =>
    /\ result.tag = "error"
    /\ Len(result.errors) = 1
    /\ result.errors[1].path =
         <<[key |-> CHOOSE key \in ViolatingKeys(assertion.validator, arg) : TRUE]>>

C3_Witness ==
  /\ IsConformsToCall
  /\ IsFlatValidator(assertion.validator)
  /\ OwnKeys(assertion.validator) = <<"name", "age">>
  /\ arg.t = "object"
  /\ ViolatingKeys(assertion.validator, arg) = {"age"}
  /\ result.tag = "error"
  /\ result.errors[1].path = <<KeyPathNode("age")>>

\* C4: conformsTo(spec) on an input that is not an object-shaped value (a
\* boolean, a number, a string, undefined, null, an array) returns a Failure
\* with exactly one error, NOT_OBJECT with an empty path, and calls no field
\* assertion of spec.
C4_NonObjectRejected ==
  (IsConformsToCall /\ arg.t # "object") =>
    /\ outcome.tag = "error"
    /\ Len(outcome.errors) = 1
    /\ outcome.errors[1].errorCode = "NOT_OBJECT"
    /\ outcome.errors[1].path = <<>>
    /\ outcome.calls = <<>>

\* the keys of the input, in the order they are met
InputKeys(value) == IF value.t = "object" THEN OwnKeys(value) ELSE <<>>

\* the keys of the input that the validator does not declare, in that order
UndeclaredKeys(validator, value) ==
  SelectSeq(InputKeys(value),
            LAMBDA key : \A i \in 1..Len(OwnKeys(validator)) : OwnKeys(validator)[i] # key)

OptionIsFalse(options) ==
  /\ ~IsFunction(options)
  /\ options.t = "object"
  /\ OwnValue(options, "allowAdditionalProperties") = Bool(FALSE)

\* the places of the errors conformsTo itself raised for undeclared keys
AdditionalPropertiesAt(errors) ==
  {i \in 1..Len(errors) :
     errors[i].errorCode = "UNEXPECTED_ADDITIONAL_PROPERTIES" /\ errors[i].path = <<>>}

\* C5: with allowAdditionalProperties = false, conformsTo appends exactly one
\* UNEXPECTED_ADDITIONAL_PROPERTIES error if and only if the input has a key
\* the spec does not declare; the error names every undeclared key in the
\* order met, comes after all field errors, and is there with or without
\* field errors. With the option absent or true no such error is raised.
C5_AdditionalProperties ==
  (IsConformsToCall /\ ~NotObject(arg) /\ outcome.tag # "throw") =>
    LET undeclared == UndeclaredKeys(assertion.validator, arg)
        errors == IF outcome.tag = "error" THEN outcome.errors ELSE <<>>
    IN IF OptionIsFalse(assertion.optionsOrNext) /\ undeclared # <<>>
       THEN /\ AdditionalPropertiesAt(errors) = {Len(errors)}
            /\ errors[Len(errors)].message =
                 "Unexpected additional propert"
                 \o (IF Len(undeclared) = 1 THEN "y" ELSE "ies") \o ": "
                 \o JoinStrings(undeclared, ", ")
            /\ \A i \in 1..(Len(errors) - 1) :
                 /\ errors[i].path # <<>>
                 /\ HasOwnProperty(assertion.validator, errors[i].path[1].key)
       ELSE AdditionalPropertiesAt(errors) = {}

\* option false, a failing field and two undeclared keys: the field's error
\* first, then the one error naming both keys
C5_Witness ==
  /\ IsConformsToCall
  /\ OptionIsFalse(assertion.optionsOrNext)
  /\ ~NotObject(arg)
  /\ UndeclaredKeys(assertion.validator, arg) = <<"y", "x">>
  /\ outcome.tag = "error"
  /\ Len(outcome.errors) = 2
  /\ outcome.errors[1].path = <<KeyPathNode("name")>>
  /\ outcome.errors[2].errorCode = "UNEXPECTED_ADDITIONAL_PROPERTIES"
  /\ outcome.errors[2].message = "Unexpected additional properties: y, x"

\* C6: when conformsTo(spec) succeeds, the Success value is a newly built
\* object, not the input, whose keys are exactly the keys the spec declares,
\* each with the value its field's assertion returned; keys of the input that
\* the spec does not declare are absent from it.
C6_NewObjectOfDeclaredKeys ==
  (IsConformsToCall /\ assertion.next = Undefined /\ outcome.tag = "success") =>
    LET validated == outcome.value
        declared == OwnKeys(assertion.validator)
    IN /\ validated.t = "object"
       /\ validated.origin = "engine"
       /\ {OwnKeys(validated)[i] : i \in 1..Len(OwnKeys(validated))} =
            {declared[i] : i \in 1..Len(declared)}
       /\ Len(OwnKeys(validated)) = Len(declared)
       /\ \A i \in 1..Len(declared) :
            OwnValue(validated, declared[i]) =
              FieldOutcome(assertion.validator, arg, declared[i]).value
       /\ \A i \in 1..Len(InputKeys(arg)) :
            ~HasOwnProperty(assertion.validator, InputKeys(arg)[i]) =>
              ~HasOwnProperty(validated, InputKeys(arg)[i])

\* a spec of two fields passes on an input that has a third key
C6_Witness ==
  /\ IsConformsToCall
  /\ outcome.tag = "success"
  /\ OwnKeys(assertion.validator) = <<"name", "age">>
  /\ arg.t = "object"
  /\ arg.origin = "caller"
  /\ UndeclaredKeys(assertion.validator, arg) # <<>>
  /\ OwnKeys(outcome.value) = <<"name", "age">>

IsEachItemCall == pc = "done" /\ assertion.op = "eachItem"

\* what the element assertion does on the i-th element
ItemOutcome(a, value, i) == Apply(a, value.items[i])

ItemsReturnResults(a, value) ==
  \A i \in 1..Len(value.items) : ItemOutcome(a, value, i).tag # "throw"

RECURSIVE ExpectedItemErrors(_, _, _)
\* the errors of the failing elements from the i-th on, by ascending index,
\* each under the index of its element
ExpectedItemErrors(a, value, i) ==
  IF i > Len(value.items) THEN <<>>
  ELSE LET o == ItemOutcome(a, value, i)
       IN (IF o.tag = "error"
           THEN [j \in 1..Len(o.errors) |->
                   [o.errors[j] EXCEPT !.path = <<[index |-> i - 1]>> \o @]]
           ELSE <<>>) \o ExpectedItemErrors(a, value, i + 1)

RECURSIVE ExpectedItemCalls(_, _, _)
\* one call per element, in order, with the calls it makes
ExpectedItemCalls(a, value, i) ==
  IF i > Len(value.items) THEN <<>>
  ELSE <<[a |-> a, arg |-> value.items[i]]>> \o ItemOutcome(a, value, i).calls
       \o ExpectedItemCalls(a, value, i + 1)

\* C7: eachItem(assertion) on an array applies assertion to every element; if
\* an element fails it returns one Failure holding the errors of every
\* failing index, each with IndexStep(index) prepended, by ascending index;
\* if all pass it returns Success of an array of the same length whose i-th
\* entry is the validated value of the i-th element.
C7_EachItemAggregates ==
  (IsEachItemCall /\ arg.t = "array" /\ ItemsReturnResults(assertion.assertion, arg)) =>
    LET itemErrors == ExpectedItemErrors(assertion.assertion, arg, 1)
        itemCalls == ExpectedItemCalls(assertion.assertion, arg, 1)
    IN /\ IsPrefix(itemCalls, outcome.calls)
       /\ IF itemErrors # <<>>
          THEN outcome.tag = "error" /\ outcome.errors = itemErrors
          ELSE assertion.next = Undefined =>
                 /\ outcome.tag = "success"
                 /\ outcome.value.t = "array"
                 /\ Len(outcome.value.items) = Len(arg.items)
                 /\ \A i \in 1..Len(arg.items) :
                      outcome.value.items[i] = ItemOutcome(assertion.assertion, arg, i).value

\* both elements of a two-element array fail: errors at [0] then at [1]
C7_Witness ==
  /\ IsEachItemCall
  /\ arg.t = "array"
  /\ Len(arg.items) = 2
  /\ ItemsReturnResults(assertion.assertion, arg)
  /\ outcome.tag = "error"
  /\ Len(outcome.errors) = 2
  /\ outcome.errors[1].path = <<ArrayIndexPathNode(0)>>
  /\ outcome.errors[2].path = <<ArrayIndexPathNode(1)>>

IsEachValueCall == pc = "done" /\ assertion.op = "eachValue"

\* the per-key spec in which every key of the input has the same assertion
SameForEveryKey(a, value) ==
  Obj("engine", [i \in 1..Len(InputKeys(value)) |-> [k |-> InputKeys(value)[i], v |-> a]])

\* C8: eachValue(assertion) on a string-keyed object that is no array applies
\* assertion to the value of every key; if a value fails it returns one
\* Failure holding the errors of every failing key, each with KeyStep(key)
\* prepended, in key-iteration order; if all pass it returns Success of a map
\* with exactly the keys of the input, each with its validated value.
C8_EachValueAggregates ==
  (/\ IsEachValueCall
   /\ arg.t = "object"
   /\ FieldsReturnResults(SameForEveryKey(assertion.assertion, arg), arg)) =>
    LET validator == SameForEveryKey(assertion.assertion, arg)
        valueErrors == ExpectedFieldErrors(validator, arg, 1)
    IN /\ outcome.calls = ExpectedFieldCalls(validator, arg, 1)
       /\ IF valueErrors # <<>>
          THEN outcome.tag = "error" /\ outcome.errors = valueErrors
          ELSE /\ outcome.tag = "success"
               /\ outcome.value.t = "object"
               /\ OwnKeys(outcome.value) = InputKeys(arg)
               /\ \A i \in 1..Len(InputKeys(arg)) :
                    OwnValue(outcome.value, InputKeys(arg)[i]) =
                      FieldOutcome(validator, arg, InputKeys(arg)[i]).value

IsEitherCall == pc = "done" /\ assertion.op = "either"

\* what the i-th alternative does on the input
AlternativeOutcome(i) == Apply(assertion.assertions[i], arg)

AlternativesReturnResults ==
  \A i \in 1..Len(assertion.assertions) : AlternativeOutcome(i).tag # "throw"

RECURSIVE ExpectedAlternativeCalls(_, _)
\* the calls of the alternatives i..n, in argument order
ExpectedAlternativeCalls(i, n) ==
  IF i > n THEN <<>>
  ELSE <<[a |-> assertion.assertions[i], arg |-> arg]>> \o AlternativeOutcome(i).calls
       \o ExpectedAlternativeCalls(i + 1, n)

RECURSIVE RenderedSubErrors(_)
\* the errors of the alternatives from the i-th on, each rendered by toString
RenderedSubErrors(i) ==
  IF i > Len(assertion.assertions) THEN <<>>
  ELSE [j \in 1..Len(AlternativeOutcome(i).errors) |->
          ErrorToString(AlternativeOutcome(i).errors[j], DefaultRoot)]
       \o RenderedSubErrors(i + 1)

\* text ends with tail
EndsWith(text, tail) ==
  /\ Len(tail) <= Len(text)
  /\ SubSeq(text, Len(text) - Len(tail) + 1, Len(text)) = tail

\* C9: either(a1, ..., an) returns the Success of the first alternative, in
\* argument order, that succeeds on the input, drops the errors of the earlier
\* ones and calls no later one; it returns a Failure only when every
\* alternative fails, and that Failure holds exactly one error, NO_MATCH with
\* an empty path, whose message carries the rendered sub-errors of all
\* alternatives in argument order.
C9_EitherFirstSuccess ==
  (IsEitherCall /\ AlternativesReturnResults) =>
    LET n == Len(assertion.assertions)
        passing == {i \in 1..n : AlternativeOutcome(i).tag = "success"}
    IN IF passing # {}
       THEN LET first == CHOOSE i \in passing : \A j \in passing : i <= j
            IN /\ outcome.tag = "success"
               /\ outcome.value = AlternativeOutcome(first).value
               /\ outcome.calls = ExpectedAlternativeCalls(1, first)
       ELSE /\ outcome.tag = "error"
            /\ Len(outcome.errors) = 1
            /\ outcome.errors[1].errorCode = "NO_MATCH"
            /\ outcome.errors[1].path = <<>>
            /\ EndsWith(outcome.errors[1].message,
                        JoinStrings(RenderedSubErrors(1), "\n    "))
            /\ outcome.calls = ExpectedAlternativeCalls(1, n)

\* two alternatives that both fail, with different errors
C9_Witness ==
  /\ IsEitherCall
  /\ Len(assertion.assertions) = 2
  /\ AlternativeOutcome(1).tag = "error"
  /\ AlternativeOutcome(2).tag = "error"
  /\ AlternativeOutcome(1).errors # AlternativeOutcome(2).errors
  /\ outcome.tag = "error"
  /\ outcome.errors[1].errorCode = "NO_MATCH"

\* the errors of each alternative under the label the caller gave it
ErrorsPerLabel(labels) ==
  Obj("engine", [i \in 1..Len(labels) |->
                   [k |-> labels[i], v |-> AlternativeOutcome(i).errors]])

\* C10: in the NO_MATCH Failure of either the sub-errors are grouped per
\* alternative under a label the caller supplied: every alternative has
\* exactly one label, and each label in the message is followed by the
\* sub-errors of that alternative only, in the order of the alternatives.
C10_EitherLabelledGroups ==
  (/\ IsEitherCall
   /\ Len(assertion.assertions) > 0
   /\ AlternativesReturnResults
   /\ outcome.tag = "error"
   /\ \A i \in 1..Len(assertion.assertions) : AlternativeOutcome(i).tag = "error") =>
    /\ "labels" \in DOMAIN assertion
    /\ Len(assertion.labels) = Len(assertion.assertions)
    /\ EndsWith(outcome.errors[1].message,
                formatEitherValidationErrorMessages(ErrorsPerLabel(assertion.labels)))

IsCallOf(names) == pc = "done" /\ assertion.op \in names

\* a call of x on value, with what x does: the call first, then x's own calls
CalledOnce(x, value) ==
  LET o == Apply(x, value) IN [o EXCEPT !.calls = <<[a |-> x, arg |-> value]>> \o @]

\* how many times x was called on value
TimesCalled(calls, x, value) ==
  Cardinality({i \in 1..Len(calls) : calls[i] = [a |-> x, arg |-> value]})

\* C11: optional(x) returns Success(undefined) for undefined without calling
\* x, and nullable(x) returns Success(null) for null without calling x; for
\* every other input (null for optional and undefined for nullable included)
\* each calls x exactly once on that input and returns what x returns,
\* unchanged.
C11_OptionalNullable ==
  (IsCallOf({"optional", "nullable"}) /\ assertion.next # Undefined) =>
    LET skipped == IF assertion.op = "optional" THEN Undefined ELSE Null
    IN IF arg = skipped
       THEN outcome = [tag |-> "success", value |-> skipped, calls |-> <<>>]
       ELSE /\ outcome = CalledOnce(assertion.next, arg)
            /\ TimesCalled(outcome.calls, assertion.next, arg) = 1

\* optional(x) on null: x is called on null and its Failure comes back
C11_Witness ==
  /\ IsCallOf({"optional"})
  /\ assertion.next = Fails(TwoErrors)
  /\ arg = Null
  /\ outcome.tag = "error"
  /\ outcome.errors = TwoErrors
  /\ outcome.calls = <<[a |-> assertion.next, arg |-> Null]>>

\* C12: defaultsTo(d, next) replaces the input by d only when the input is
\* undefined (not when it is null or anything else) and hands the resulting
\* value to next, so a default that violates next gives a Failure;
\* defaultsTo(d) without next returns Success(d) for undefined and
\* Success(input) otherwise.
C12_DefaultsTo ==
  IsCallOf({"defaultsTo"}) =>
    LET given == IF arg = Undefined THEN assertion.def ELSE arg
    IN IF assertion.next = Undefined
       THEN outcome = [tag |-> "success", value |-> given, calls |-> <<>>]
       ELSE outcome = CalledOnce(assertion.next, given)

\* defaultsTo("", isString(minLength(1))) on undefined: the default fails next
C12_Witness ==
  /\ IsCallOf({"defaultsTo"})
  /\ assertion.def = Str("")
  /\ assertion.next = StringChain
  /\ arg = Undefined
  /\ outcome.tag = "error"
  /\ outcome.errors[1].errorCode = "LESS_THAN_MIN_LENGTH"
  /\ outcome.calls[1] = [a |-> StringChain, arg |-> Str("")]

\* C13: onErrorDefaultsTo(d, x) returns Success(d) whenever x fails on the
\* input, whether x returns a Failure (of any errors) or throws, and returns
\* x's Success unchanged otherwise; as an element assertion of eachItem none of
\* x's errors reach the errors of the enclosing result.
C13_OnErrorDefaultsTo ==
  /\ IsCallOf({"onErrorDefaultsTo"}) =>
       IF Apply(assertion.next, arg).tag = "success"
       THEN outcome = CalledOnce(assertion.next, arg)
       ELSE outcome.tag = "success" /\ outcome.value = assertion.def
  /\ (/\ IsEachItemCall
      /\ arg.t = "array"
      /\ assertion.assertion.op = "onErrorDefaultsTo"
      /\ assertion.next = Undefined) =>
       /\ outcome.tag = "success"
       /\ \A i \in 1..Len(arg.items) :
            outcome.value.items[i] =
              IF Apply(assertion.assertion.next, arg.items[i]).tag = "success"
              THEN Apply(assertion.assertion.next, arg.items[i]).value
              ELSE assertion.assertion.def

\* the inputs a check is meant for: a kind check takes any value, a bound
\* check a number, a pattern a string, a length check a string or an array
WellShaped(a, value) ==
  CASE a.op \in {"min", "max"} -> value.t = "number"
    [] a.op = "matches" -> value.t = "string"
    [] a.op \in {"minLength", "maxLength", "lengthIs"} -> value.t \in {"string", "array"}
    [] OTHER -> TRUE

LengthOf(value) == IF value.t = "string" THEN Len(value.s) ELSE Len(value.items)

\* whether the value has what the check asks for
CheckPasses(a, value) ==
  CASE a.op = "isBoolean" -> value.t = "boolean"
    [] a.op = "isNumber" -> value.t = "number"
    [] a.op = "isString" -> value.t = "string"
    [] a.op = "isArray" -> value.t = "array"
    [] a.op \in {"isObject", "isMap"} -> value.t = "object"
    [] a.op = "min" -> value.n >= a.bound
    [] a.op = "max" -> value.n <= a.bound
    [] a.op = "matches" -> value.s \in a.regex.accepts
    [] a.op = "minLength" -> LengthOf(value) >= a.bound
    [] a.op = "maxLength" -> LengthOf(value) <= a.bound
    [] a.op = "lengthIs" -> LengthOf(value) = a.bound

\* the error kind of each check
KindOf(a) ==
  CASE a.op = "isBoolean" -> "NOT_BOOLEAN"
    [] a.op = "isNumber" -> "NOT_NUMBER"
    [] a.op = "isString" -> "NOT_STRING"
    [] a.op = "isArray" -> "NOT_ARRAY"
    [] a.op \in {"isObject", "isMap"} -> "NOT_OBJECT"
    [] a.op = "min" -> "LESS_THAN_MIN"
    [] a.op = "max" -> "GREATER_THAN_MAX"
    [] a.op = "matches" -> "FAILED_REGEXP"
    [] a.op = "minLength" -> "LESS_THAN_MIN_LENGTH"
    [] a.op = "maxLength" -> "GREATER_THAN_MAX_LENGTH"
    [] a.op = "lengthIs" -> "LENGTH_NOT_EQUAL"

\* C14: every primitive assertion (isBoolean, isNumber, isString, isArray,
\* isObject, isMap, min, max, matches, minLength, maxLength, lengthIs) calls
\* its next only if its own check passed: when the check fails it returns a
\* Failure of one error of its own kind and next is never called; when the
\* check passes it returns next(value) if next was given, else Success(value)
\* with the input itself.
C14_NextOnlyAfterCheck ==
  (IsCallOf(PrimitiveChecks) /\ WellShaped(assertion, arg)) =>
    IF CheckPasses(assertion, arg)
    THEN IF assertion.next = Undefined
         THEN outcome = [tag |-> "success", value |-> arg, calls |-> <<>>]
         ELSE outcome = CalledOnce(assertion.next, arg)
    ELSE /\ outcome.tag = "error"
         /\ Len(outcome.errors) = 1
         /\ outcome.errors[1].errorCode = KindOf(assertion)
         /\ outcome.errors[1].path = <<>>
         /\ outcome.calls = <<>>

RECURSIVE ThrowPaths(_, _)
\* the paths, from the value a is applied to, of the values on which a
\* caller's assertion under a throws: through the fields of conformsTo, the
\* elements of eachItem and the next of a kind check that passed
ThrowPaths(a, value) ==
  CASE a.op = "caller" -> IF a.does = "throw" THEN {<<>>} ELSE {}
    [] a.op = "conformsTo" /\ value.t = "object" ->
         UNION {{<<[key |-> OwnKeys(a.validator)[i]]>> \o p :
                   p \in ThrowPaths(a.validator.props[i].v,
                                    OwnValue(value, OwnKeys(a.validator)[i]))} :
                i \in 1..Len(OwnKeys(a.validator))}
    [] a.op = "eachItem" /\ value.t = "array" ->
         UNION {{<<[index |-> i - 1]>> \o p : p \in ThrowPaths(a.assertion, value.items[i])} :
                i \in 1..Len(value.items)}
    [] a.op \in {"isArray", "isObject"} /\ a.next # Undefined /\ CheckPasses(a, value) ->
         ThrowPaths(a.next, value)
    [] OTHER -> {}

\* the errors of the fields or elements that return a Failure
SiblingErrors ==
  CASE assertion.op = "conformsTo" /\ arg.t = "object" ->
         ExpectedFieldErrors(assertion.validator, arg, 1)
    [] assertion.op = "eachItem" /\ arg.t = "array" ->
         ExpectedItemErrors(assertion.assertion, arg, 1)
    [] OTHER -> <<>>

\* C15: when a caller's assertion at any depth under conformsTo fields and
\* eachItem elements throws, whatever it throws (a non-object and null
\* included), validate returns a Failure with an UNHANDLED_ERROR error whose
\* path is exactly the key and index steps from the root to the value the
\* assertion was applied to, and the failures of the sibling fields and
\* elements are reported with it.
C15_ThrowBecomesError ==
  (IsCallOf({"conformsTo", "eachItem"}) /\ ThrowPaths(assertion, arg) # {}) =>
    /\ result.tag = "error"
    /\ \A p \in ThrowPaths(assertion, arg) :
         \E i \in 1..Len(result.errors) :
           result.errors[i].errorCode = "UNHANDLED_ERROR" /\ result.errors[i].path = p
    /\ \A j \in 1..Len(SiblingErrors) :
         \E i \in 1..Len(result.errors) : result.errors[i] = SiblingErrors[j]

\* a Result: a Success with a value and nothing else, or a Failure with a
\* non-empty list of errors and nothing else
WellFormedResult(r) ==
  \/ r.tag = "success" /\ DOMAIN r = {"tag", "value", "calls"}
  \/ r.tag = "error" /\ DOMAIN r = {"tag", "errors", "calls"} /\ Len(r.errors) > 0

\* C16: every Result that validate returns, and every Result an engine
\* combinator returns, is exactly one of Success(value) and Failure(errors),
\* and the error list of every such Failure is non-empty.
C16_ResultWellFormed ==
  pc = "done" =>
    /\ result.tag # "throw" => WellFormedResult(result)
    /\ outcome.tag # "throw" => WellFormedResult(outcome)

\* either() of no alternative at all: still a Failure of one error
C16_Witness ==
  /\ IsEitherCall
  /\ Len(assertion.assertions) = 0
  /\ result.tag = "error"
  /\ Len(result.errors) = 1
  /\ result.errors[1].errorCode = "NO_MATCH"

RECURSIVE NoThrower(_)
\* no assertion written by the caller under a throws
NoThrower(a) ==
  CASE a.op = "caller" -> a.does # "throw"
    [] a.op = "conformsTo" ->
         /\ \A i \in 1..Len(a.validator.props) : NoThrower(a.validator.props[i].v)
         /\ a.next # Undefined => NoThrower(a.next)
    [] a.op \in {"eachItem", "eachValue"} ->
         NoThrower(a.assertion) /\ (a.next # Undefined => NoThrower(a.next))
    [] a.op = "either" -> \A i \in 1..Len(a.assertions) : NoThrower(a.assertions[i])
    [] a.op = "equals" -> TRUE
    [] OTHER -> a.next # Undefined => NoThrower(a.next)

\* the assertion without what is chained after it
Alone(a) == [a EXCEPT !.next = Undefined]

\* a applied to value fails with err, the path of err aside
RaisedBy(a, value, err) ==
  LET o == tryCatch(Apply(a, value))
  IN /\ o.tag = "error"
     /\ \E j \in 1..Len(o.errors) : o.errors[j] = [err EXCEPT !.path = <<>>]

RECURSIVE SitsAt(_, _, _, _)
\* err, found under a applied to value, has the path that leads from value to
\* where it was raised: one key step for each conformsTo or eachValue level,
\* one index step for each eachItem level, outermost first, each step naming a
\* declared key, a key or an index of the value at that level, and at the end
\* of the path the assertion found there raises err on the value found there
SitsAt(a, value, err, path) ==
  CASE a.op = "conformsTo" /\ path # <<>> ->
         /\ "key" \in DOMAIN path[1]
         /\ HasOwnProperty(a.validator, path[1].key)
         /\ IF value.t = "object"
            THEN SitsAt(OwnValue(a.validator, path[1].key), OwnValue(value, path[1].key),
                        err, Tail(path))
            ELSE Tail(path) = <<>>
    [] a.op = "eachItem" /\ path # <<>> ->
         /\ value.t = "array"
         /\ "index" \in DOMAIN path[1]
         /\ path[1].index \in 0..(Len(value.items) - 1)
         /\ SitsAt(a.assertion, value.items[path[1].index + 1], err, Tail(path))
    [] a.op = "eachValue" /\ path # <<>> ->
         /\ "key" \in DOMAIN path[1]
         /\ HasOwnProperty(value, path[1].key)
         /\ SitsAt(a.assertion, OwnValue(value, path[1].key), err, Tail(path))
    [] /\ a.op \in PrimitiveChecks \cup {"optional", "nullable", "defaultsTo"}
       /\ a.next # Undefined
       /\ Apply(Alone(a), value).tag = "success" ->
         SitsAt(a.next, Apply(Alone(a), value).value, err, path)
    [] a.op \in {"conformsTo", "eachValue"} ->
         \* raised by the combinator itself: the value is no object, or it
         \* has keys that are not declared
         /\ path = <<>>
         /\ \/ value.t # "object" /\ RaisedBy(a, value, err)
            \/ /\ err.errorCode = "UNEXPECTED_ADDITIONAL_PROPERTIES"
               /\ a.op = "conformsTo"
               /\ OptionIsFalse(a.optionsOrNext)
               /\ UndeclaredKeys(a.validator, value) # <<>>
            \/ \* every field passed and next failed on the validated object
               /\ a.op = "conformsTo"
               /\ a.next # Undefined
               /\ Apply(Alone(a), value).tag = "success"
               /\ RaisedBy(a.next, Apply(Alone(a), value).value, err)
    [] a.op = "eachItem" ->
         \* raised by the combinator itself: the value is no array, or every
         \* element passed and next failed on the array of their values
         /\ path = <<>>
         /\ RaisedBy(a, value, err)
         /\ \/ value.t # "array"
            \/ /\ a.next # Undefined
               /\ \A i \in 1..Len(value.items) :
                    tryCatch(Apply(a.assertion, value.items[i])).tag = "success"
    [] OTHER -> path = <<>> /\ RaisedBy(a, value, err)

\* C17: every error of a Failure that validate returns for an assertion built
\* from conformsTo, isArray(eachItem(..)) and isMap(eachValue(..)), nested to
\* any depth, has in its path exactly one step for each structural level it
\* passed through, outermost first, each step being the key or index under
\* which the failing value sits at that level.
C17_OneStepPerLevel ==
  (pc = "done" /\ result.tag = "error" /\ NoThrower(assertion)) =>
    \A i \in 1..Len(result.errors) :
      SitsAt(assertion, arg, result.errors[i], result.errors[i].path)

\* {tags: isArray(eachItem(isString())), ..} on {tags: ["a", 2, "c"], ..}: one
\* error under tags, at .tags[1]
C17_Witness ==
  /\ IsConformsToCall
  /\ OwnValue(assertion.validator, "tags") = TagsChain
  /\ arg.t = "object"
  /\ OwnValue(arg, "tags") = Arr("caller", <<Str("a"), Num(2), Str("c")>>)
  /\ result.tag = "error"
  /\ \E i \in 1..Len(result.errors) :
       /\ result.errors[i].path = <<KeyPathNode("tags"), ArrayIndexPathNode(1)>>
       /\ result.errors[i].errorCode = "NOT_STRING"
       /\ ErrorToString(result.errors[i], DefaultRoot) = "$.tags[1]: Expected string, got number"
       /\ \A j \in 1..Len(result.errors) :
            (j # i) => result.errors[j].path[1] # KeyPathNode("tags")

\* the text of one path step: .key for a bareword key, ['key'] for any other
\* key (its first backslash and first quote escaped), [index] for an index
StepText(node) ==
  IF "index" \in DOMAIN node THEN "[" \o ToString(node.index) \o "]"
  ELSE IF IsBareword(node.key) THEN "." \o node.key
  ELSE "['" \o ReplaceFirst(ReplaceFirst(node.key, "\\", "\\\\"), "'", "\\'") \o "']"

RECURSIVE PathText(_)
PathText(path) == IF path = <<>> THEN "" ELSE StepText(path[1]) \o PathText(Tail(path))

RECURSIVE ErrorLines(_, _)
\* one line for each error, in list order, each after a line break and indent
ErrorLines(errors, root) ==
  IF errors = <<>> THEN ""
  ELSE "\n  " \o root \o PathText(errors[1].path) \o ": " \o errors[1].message
       \o ErrorLines(Tail(errors), root)

\* C18: ErrorResult.toString(root) returns a text for a list of 0, 1 or more
\* errors: the header "<N> validation error" for N = 1 and "<N> validation
\* errors" for every other N, then one line for each error in list order, the
\* line being root, the renderings of the steps of the error's path (.key,
\* ['key'], [index]), ": " and the message.
C18_ToString ==
  pc = "rendered" =>
    LET n == Len(rendering.errors)
        header == ToString(n) \o " validation error" \o (IF n = 1 THEN "" ELSE "s") \o ":"
    IN rendering.text =
         header \o (IF n = 0 THEN "\n  " ELSE ErrorLines(rendering.errors, rendering.root))

\* one error, under a key and an index, with a root of the caller's
C18_Witness ==
  /\ pc = "rendered"
  /\ rendering.root = "input"
  /\ Len(rendering.errors) = 1
  /\ rendering.errors[1].path = <<KeyPathNode("tags"), ArrayIndexPathNode(1)>>
  /\ rendering.text = "1 validation error:\n  input.tags[1]: Expected string, got number"

RECURSIVE Uses(_, _)
\* whether an assertion of one of the given kinds occurs in a
Uses(a, ops) ==
  \/ a.op \in ops
  \/ CASE a.op = "conformsTo" ->
            \/ \E i \in 1..Len(a.validator.props) : Uses(a.validator.props[i].v, ops)
            \/ a.next # Undefined /\ Uses(a.next, ops)
            \/ IsFunction(a.optionsOrNext) /\ Uses(a.optionsOrNext, ops)
       [] a.op \in {"eachItem", "eachValue"} ->
            Uses(a.assertion, ops) \/ (a.next # Undefined /\ Uses(a.next, ops))
       [] a.op = "either" -> \E i \in 1..Len(a.assertions) : Uses(a.assertions[i], ops)
       [] a.op \in {"equals", "caller"} -> FALSE
       [] OTHER -> a.next # Undefined /\ Uses(a.next, ops)

RECURSIVE Plain(_)
\* a value without the identity of its objects and arrays: two values are
\* structurally equal when their plain forms are equal
Plain(v) ==
  CASE v.t = "array" -> [t |-> "array", items |-> [i \in 1..Len(v.items) |-> Plain(v.items[i])]]
    [] v.t = "object" ->
         [t |-> "object",
          props |-> [i \in 1..Len(v.props) |-> [k |-> v.props[i].k, v |-> Plain(v.props[i].v)]]]
    [] OTHER -> v

\* validating again the value of a Success gives a Success of an equal value
Revalidates ==
  LET again == validate(result.value, assertion)
  IN again.tag = "success" /\ Plain(again.value) = Plain(result.value)

NextOf(a) ==
  CASE a.op = "conformsTo" ->
         IF a.next # Undefined THEN a.next
         ELSE IF IsFunction(a.optionsOrNext) THEN a.optionsOrNext ELSE Undefined
    [] a.op \in {"equals", "either", "caller"} -> Undefined
    [] OTHER -> a.next

\* the assertion without the one it hands its value to
WithoutNext(a) ==
  IF a.op = "conformsTo"
  THEN [a EXCEPT !.next = Undefined,
                 !.optionsOrNext = IF IsFunction(@) THEN Undefined ELSE @]
  ELSE [a EXCEPT !.next = Undefined]

RECURSIVE Stripped(_, _)
\* the input after replacing undefined by the default where defaultsTo applies
\* and removing the keys a conformsTo does not declare; a key that is not
\* there reads as undefined
Stripped(a, value) ==
  IF a = Undefined THEN value
  ELSE
    CASE a.op = "optional" -> IF value = Undefined THEN value ELSE Stripped(a.next, value)
      [] a.op = "nullable" -> IF value = Null THEN value ELSE Stripped(a.next, value)
      [] a.op = "defaultsTo" ->
           Stripped(a.next, IF value = Undefined THEN a.def ELSE value)
      [] a.op = "conformsTo" /\ value.t = "object" ->
           Stripped(NextOf(a),
                    [t |-> "object", origin |-> "engine",
                     props |-> [i \in 1..Len(a.validator.props) |->
                                  [k |-> a.validator.props[i].k,
                                   v |-> Stripped(a.validator.props[i].v,
                                                  OwnValue(value, a.validator.props[i].k))]]])
      [] a.op = "eachItem" /\ value.t = "array" ->
           Stripped(NextOf(a),
                    [t |-> "array", origin |-> "engine",
                     items |-> [i \in 1..Len(value.items) |->
                                  Stripped(a.assertion, value.items[i])]])
      [] a.op = "eachValue" /\ value.t = "object" ->
           Stripped(NextOf(a),
                    [t |-> "object", origin |-> "engine",
                     props |-> [i \in 1..Len(value.props) |->
                                  [k |-> value.props[i].k,
                                   v |-> Stripped(a.assertion, value.props[i].v)]]])
      [] OTHER -> Stripped(NextOf(a), value)

RECURSIVE Satisfies(_, _)
\* whether the value satisfies every check the assertion declares
Satisfies(a, value) ==
  \/ a = Undefined
  \/ /\ a # Undefined
     /\ CASE a.op \in PrimitiveChecks ->
               WellShaped(a, value) /\ CheckPasses(a, value)
          [] a.op = "equals" -> \E i \in 1..Len(a.vals) : a.vals[i] = value
          [] a.op = "optional" -> value = Undefined \/ Satisfies(a.next, value)
          [] a.op = "nullable" -> value = Null \/ Satisfies(a.next, value)
          [] a.op = "defaultsTo" ->
               Satisfies(a.next, IF value = Undefined THEN a.def ELSE value)
          [] a.op = "onErrorDefaultsTo" -> Satisfies(a.next, value)
          [] a.op = "conformsTo" ->
               /\ value.t = "object"
               /\ \A i \in 1..Len(a.validator.props) :
                    Satisfies(a.validator.props[i].v, OwnValue(value, a.validator.props[i].k))
               /\ OptionIsFalse(a.optionsOrNext) => UndeclaredKeys(a.validator, value) = <<>>
          [] a.op = "eachItem" ->
               /\ value.t = "array"
               /\ \A i \in 1..Len(value.items) : Satisfies(a.assertion, value.items[i])
          [] a.op = "eachValue" ->
               /\ value.t = "object"
               /\ \A i \in 1..Len(value.props) : Satisfies(a.assertion, value.props[i].v)
          [] OTHER -> FALSE
     /\ a.op \in PrimitiveChecks \cup {"conformsTo", "eachItem", "eachValue"} =>
          Satisfies(NextOf(a), Stripped(WithoutNext(a), value))

RECURSIVE Bare(_)
\* a value without the identity of its objects and arrays and without the
\* properties that hold undefined
Bare(v) ==
  CASE v.t = "array" -> [t |-> "array", items |-> [i \in 1..Len(v.items) |-> Bare(v.items[i])]]
    [] v.t = "object" ->
         LET kept == SelectSeq(v.props, LAMBDA p : p.v # Undefined)
         IN [t |-> "object",
             props |-> {[k |-> kept[i].k, v |-> Bare(kept[i].v)] : i \in 1..Len(kept)}]
    [] OTHER -> v

\* C20: for every input that satisfies every declared check of an assertion
\* built from primitives, modifiers and structural combinators, validate
\* returns Success, and the value is structurally equal to the input after
\* replacing undefined by the declared default where defaultsTo applies and
\* removing the object keys the conformsTo spec does not declare; there is no
\* other difference between input and output.
C20_SuccessEqualsStrippedInput ==
  (/\ pc = "done"
   /\ ~Uses(assertion, {"caller", "either"})
   /\ Satisfies(assertion, arg)) =>
    /\ result.tag = "success"
    /\ Bare(result.value) = Bare(Stripped(assertion, arg))

\* C21: isMap succeeds only for an object that is not an array: for a
\* boolean, a number, a string, undefined, null or an array it returns a
\* Failure of one NOT_OBJECT error and next is not called; for an object with
\* a key that is not a string it returns a NOT_STRING_KEY Failure naming the
\* keys; otherwise it returns next(input), or Success(input) without next.
C21_IsMap ==
  IsCallOf({"isMap"}) =>
    IF arg.t # "object"
    THEN /\ outcome.tag = "error"
         /\ Len(outcome.errors) = 1
         /\ outcome.errors[1].errorCode = "NOT_OBJECT"
         /\ outcome.errors[1].path = <<>>
         /\ outcome.calls = <<>>
    ELSE IF \E i \in 1..Len(OwnKeys(arg)) : TypeOfKey(OwnKeys(arg)[i]) # "string"
         THEN /\ outcome.tag = "error"
              /\ Len(outcome.errors) = 1
              /\ outcome.errors[1].errorCode = "NOT_STRING_KEY"
              /\ outcome.calls = <<>>
         ELSE IF assertion.next = Undefined
              THEN outcome = [tag |-> "success", value |-> arg, calls |-> <<>>]
              ELSE outcome = CalledOnce(assertion.next, arg)

\* C25: conformsTo(spec, next) and conformsTo(spec, options, next) chain like
\* every other assertion: when every declared field passes and no
\* additional-property error applies, next is called exactly once with the
\* newly built validated object and its Result is returned; when there is any
\* error, next is not called.
C25_ConformsToChains ==
  (/\ IsConformsToCall
   /\ NextOf(assertion) # Undefined
   /\ arg.t = "object"
   /\ FieldsReturnResults(assertion.validator, arg)) =>
    LET alone == Apply(WithoutNext(assertion), arg)
    IN IF alone.tag = "success"
       THEN outcome = After(alone.calls, CalledOnce(NextOf(assertion), alone.value))
       ELSE outcome = alone

\* the alternatives of the either that return a Success
SucceedingAlternatives ==
  {i \in 1..Len(assertion.assertions) : AlternativeOutcome(i).tag = "success"}

\* C26: in either(a1, ..., an) an alternative that throws instead of
\* returning a Failure is a failed attempt handled at the either: the
\* remaining alternatives are still tried in order, the Success of a later
\* alternative is returned, and if every alternative fails the result is the
\* single NO_MATCH Failure, not a propagated exception.
C26_EitherCatchesThrows ==
  (/\ IsEitherCall
   /\ \E i \in 1..Len(assertion.assertions) : AlternativeOutcome(i).tag = "throw") =>
    /\ outcome.tag # "throw"
    /\ IF SucceedingAlternatives # {}
       THEN LET first == CHOOSE i \in SucceedingAlternatives :
                           \A j \in SucceedingAlternatives : i <= j
            IN /\ outcome.tag = "success"
               /\ outcome.value = AlternativeOutcome(first).value
               /\ \A i \in 1..first : TimesCalled(outcome.calls, assertion.assertions[i], arg) >= 1
       ELSE /\ outcome.tag = "error"
            /\ Len(outcome.errors) = 1
            /\ outcome.errors[1].errorCode = "NO_MATCH"

\* C30: eachValue(assertion, next) chains like eachItem(assertion, next): when
\* every value of the map passes, next is called exactly once with the map of
\* the validated values and its Result is returned, so a failing next makes
\* eachValue fail; when a value fails, next is not called.
C30_EachValueChains ==
  (/\ IsEachValueCall
   /\ assertion.next # Undefined
   /\ arg.t = "object"
   /\ outcome.tag # "throw") =>
    LET alone == Apply(WithoutNext(assertion), arg)
    IN IF alone.tag = "success"
       THEN outcome = After(alone.calls, CalledOnce(assertion.next, alone.value))
       ELSE outcome = alone

BoundChecks == {"min", "max", "minLength", "maxLength", "lengthIs"}

\* whether the value is on the wrong side of the bound of the check
BoundViolated(a, value) ==
  CASE a.op = "min" -> value.n < a.bound
    [] a.op = "max" -> value.n > a.bound
    [] a.op = "minLength" -> LengthOf(value) < a.bound
    [] a.op = "maxLength" -> LengthOf(value) > a.bound
    [] a.op = "lengthIs" -> LengthOf(value) # a.bound

\* a Failure of one error of the given kind, nothing else called
FailsWith(o, kind) ==
  /\ o.tag = "error"
  /\ Len(o.errors) = 1
  /\ o.errors[1].errorCode = kind
  /\ o.calls = <<>>

EqualsOneOf(vals, value) ==
  /\ value.t \in {"undefined", "null", "boolean", "number", "string"}
  /\ \E i \in 1..Len(vals) : vals[i].t = value.t /\ vals[i] = value

\* C28: equals(v1, ..., vn) returns Success(input) if and only if the input is
\* strictly equal (same type and value, no coercion) to at least one vi, and
\* otherwise a Failure of exactly one NOT_EQUAL error; it never calls a
\* further assertion.
C28_EqualsStrict ==
  IsCallOf({"equals"}) =>
    IF EqualsOneOf(assertion.vals, arg)
    THEN outcome = [tag |-> "success", value |-> arg, calls |-> <<>>]
    ELSE /\ FailsWith(outcome, "NOT_EQUAL")
         /\ outcome.errors[1].path = <<>>

\* equals(1) on the string "1": they differ in type, and the Failure names both
C28_Witness ==
  /\ IsCallOf({"equals"})
  /\ assertion.vals = <<Num(1)>>
  /\ arg = Str("1")
  /\ FailsWith(outcome, "NOT_EQUAL")
  /\ outcome.errors[1].message = "'1' does not equal '1'"

\* C29: a validate call leaves the input value, with every nested object,
\* array and key, and the assertion with every validator in it as they were
\* when the call was made: at every step of the call and after it, however it
\* ends, and through the calls that follow
C29_InputAndSpecUnchanged ==
  /\ pc = "running" =>
       /\ Load(heap, stack[1].arg) = stack[1].input
       /\ Load(heap, stack[1].a.assertion) = stack[1].spec
  /\ \A j \in 1..Len(history) :
       history[j].op = "validate" =>
         /\ Load(heap, history[j].arg) = history[j].input
         /\ Load(heap, history[j].assertion) = history[j].spec

\* a call of a conformsTo with a default in it has returned a Success whose
\* value is a new object that differs from the input, and another has
\* returned a Failure with a path into the input
C29_Witness ==
  /\ Len(history) = 2
  /\ history[1].op = "validate"
  /\ history[1].spec = ConformsTo(Person, Undefined, Undefined)
  /\ history[1].input =
       Obj("caller", <<[k |-> "name", v |-> Str("a")], [k |-> "tags", v |-> Arr("caller", <<>>)]>>)
  /\ history[1].seen.tag = "success"
  /\ history[1].seen.value =
       Obj("engine", <<[k |-> "name", v |-> Str("a")], [k |-> "age", v |-> Num(0)]>>)
  /\ history[1].result.value # history[1].arg
  /\ history[2].seen.tag = "error"
  /\ \E i \in 1..Len(history[2].seen.errors) : history[2].seen.errors[i].path # <<>>

\* the same variant with the same value, or the same errors (kind, message
\* and path) in the same order
SameResult(r1, r2) ==
  /\ r1.tag = r2.tag
  /\ r1.tag = "success" => r1.value = r2.value
  /\ r1.tag = "error" => r1.errors = r2.errors
  /\ r1.tag = "throw" => r1.err = r2.err

KeySet(validator) == {OwnKeys(validator)[i] : i \in 1..Len(OwnKeys(validator))}

\* C22: extendValidator(validator1, validator2) returns a new object whose
\* keys are the keys of the two, each once, with validator2's assertion under
\* every key of validator2 and validator1's under the others; validator1 and
\* validator2 stay as they were, then and through the calls that follow; and
\* conformsTo of the result, given an object, calls the assertion of every
\* key of the two on the value under that key
C22_ExtendValidator ==
  \A j \in 1..Len(history) :
    history[j].op = "extendValidator" =>
      LET e == history[j]
          extended == Load(heap, e.result)
      IN /\ e.result \notin {e.validator1, e.validator2}
         /\ extended.origin = "engine"
         /\ KeySet(extended) = KeySet(e.given1) \cup KeySet(e.given2)
         /\ Len(OwnKeys(extended)) = Cardinality(KeySet(extended))
         /\ \A key \in KeySet(e.given2) : OwnValue(extended, key) = OwnValue(e.given2, key)
         /\ \A key \in KeySet(e.given1) \ KeySet(e.given2) :
              OwnValue(extended, key) = OwnValue(e.given1, key)
         /\ Load(heap, e.validator1) = e.given1
         /\ Load(heap, e.validator2) = e.given2
         /\ \A k \in 1..Len(history) :
              (/\ history[k].op = "validate"
               /\ history[k].assertion.validator = e.result
               /\ history[k].input.t = "object")
              => \A key \in KeySet(e.given1) \cup KeySet(e.given2) :
                   \E c \in 1..Len(history[k].seen.calls) :
                     /\ history[k].seen.calls[c].a =
                          OwnValue(IF key \in KeySet(e.given2) THEN e.given2 ELSE e.given1, key)
                     /\ history[k].seen.calls[c].arg = OwnValue(history[k].input, key)

\* two validators with a key in common and a key each of their own were put
\* together, and an object was validated with the result
C22_Witness ==
  /\ Len(history) = 2
  /\ history[1].op = "extendValidator"
  /\ KeySet(history[1].given1) \cap KeySet(history[1].given2) # {}
  /\ KeySet(history[1].given1) \ KeySet(history[1].given2) # {}
  /\ KeySet(history[1].given2) \ KeySet(history[1].given1) # {}
  /\ OwnValue(history[1].given1, "name") # OwnValue(history[1].given2, "name")
  /\ history[2].assertion.validator = history[1].result
  /\ history[2].input.t = "object"
  /\ history[2].seen.tag = "error"

RECURSIVE Size(_)
\* the number of objects and arrays in a value
Size(v) ==
  CASE v.t = "object" ->
         LET RECURSIVE Sum(_)
             Sum(i) == IF i = 0 THEN 0 ELSE Size(v.props[i].v) + Sum(i - 1)
         IN 1 + Sum(Len(v.props))
    [] v.t = "array" ->
         LET RECURSIVE Sum(_)
             Sum(i) == IF i = 0 THEN 0 ELSE Size(v.items[i]) + Sum(i - 1)
         IN 1 + Sum(Len(v.items))
    [] OTHER -> 0

\* what a structure holds directly; a key that is not there reads as undefined
HeldBy(v) ==
  CASE v.t = "object" -> {v.props[i].v : i \in 1..Len(v.props)} \cup {Undefined}
    [] v.t = "array" -> {v.items[i] : i \in 1..Len(v.items)}
    [] OTHER -> {}

\* the argument of the activation that made call c of the log
CallerArg(c) == IF log[c].by = 0 THEN stack[1].input ELSE log[log[c].by].arg

\* every call conformsTo, eachValue and eachItem make of a sub-assertion is on
\* a field value, map value or element of their own argument, a strictly
\* smaller structure, and no activation calls next twice
Descends ==
  /\ \A c \in 1..Len(log) :
       log[c].role \in {"field", "item"} =>
         /\ log[c].arg \in HeldBy(CallerArg(c))
         /\ Size(log[c].arg) < Size(CallerArg(c))
  /\ \A c, d \in 1..Len(log) :
       (c # d /\ log[c].role = "next" /\ log[d].role = "next") => log[c].by # log[d].by

\* the call that is running was given an assertion made of engine combinators only
EngineOnly == pc = "running" /\ ~Uses(stack[1].spec, {"caller"})

\* C23: a validate call with an assertion composed of engine combinators only
\* returns a Result after finitely many steps, and on the way every
\* structural combinator calls its sub-assertion on strictly smaller parts of
\* its argument and every chain link calls next at most once
C23_Terminates ==
  /\ [](pc = "running" => Descends)
  /\ EngineOnly ~> (/\ pc = "returned"
                    /\ history[Len(history)].op = "validate"
                    /\ history[Len(history)].seen.tag \in {"success", "error"})

\* a call with engine combinators only went through fields, elements and
\* chain links of a nested input and has returned
C23_Witness ==
  /\ pc = "returned"
  /\ history[Len(history)].op = "validate"
  /\ ~Uses(history[Len(history)].spec, {"caller"})
  /\ Size(history[Len(history)].input) >= 3
  /\ \A role \in {"field", "item", "next"} :
       \E c \in 1..Len(log) : log[c].role = role
  /\ Len(log) >= 8

====
